---- MODULE Spec2Model ----
(***************************************************************************)
(* Token lifecycle and revocation of jwt_auth_middleware: the module       *)
(* globals of jwt_utils.py (_jwt_config, _blacklist_manager), the remote   *)
(* revocation store reached by BlacklistManager, the server clock, and the *)
(* request decorators of middleware.py.                                    *)
(*                                                                         *)
(* Time is counted in whole clock units; one unit stands for one minute,   *)
(* the unit of the configured lifetimes.  A token string is a              *)
(* deterministic, injective function of (payload, key), so a token is      *)
(* modelled by the pair it encodes.                                        *)
(***************************************************************************)
EXTENDS Integers, FiniteSets, Sequences, TLC

VARIABLES
    jwt_config,         \* jwt_utils._jwt_config: None or a JWTConfig
    blacklist_manager,  \* jwt_utils._blacklist_manager: None or a BlacklistManager
    store,              \* documents of the remote blacklist collection
    now,                \* server clock (UTC)
    tz,                 \* offset of the server's local time zone from UTC
    uuid,               \* number of uuid.uuid4() values drawn so far
    tokens,             \* token strings that exist (issued here or encoded elsewhere)
    last,               \* the latest call: operation, argument and result
    revoked,            \* history: tokens whose latest revoke_token returned
                        \* True, with no remove_from_blacklist call since
    unchecked,          \* history: configurations under which verify_token
                        \* returned claims although the store did not answer
    stats_call,         \* a get_blacklist_stats call between its two count
                        \* requests (its total_count so far), or None
    running             \* calls of other threads that are between two
                        \* accesses to the module globals

vars == <<jwt_config, blacklist_manager, store, now, tz, uuid, tokens, last, revoked,
          unchecked, stats_call, running>>

----------------------------------------------------------------------------
(* Bounds *)

MaxTime == 2
MaxTokens == 3
MaxRecords == 2

----------------------------------------------------------------------------
(* Values *)

None == [none |-> TRUE]

Keys == {"k1", "k2"}

\* A Python str object, and an argument left out of a call.
Str(s) == [str |-> s]
IsStr(v) == "str" \in DOMAIN v
Missing == [missing |-> TRUE]

TZOffsets == {-1, 0}

\* JWTConfig objects that pass construction (config.py:33-62): non-empty
\* key, positive integer lifetimes, an http(s) store URL.
Configs ==
    { [secret_key |-> k, enable_blacklist |-> b,
       mongodb_api_url |-> Str("http://store"),
       blacklist_collection |-> Str("jwt_blacklist"),
       access_token_expires |-> 1, refresh_token_expires |-> 2]
      : k \in Keys, b \in BOOLEAN }

\* Caller-supplied claim sets: mappings of string keys to JSON values.
ClaimSets ==
    { [user_id |-> 7],
      [user_id |-> 7, roles |-> {"user"}, permissions |-> {"read"}],
      [user_id |-> 1, roles |-> {"admin", "user"}, permissions |-> {"read", "write"}] }

ReservedKeys == {"exp", "type", "iat", "jti"}

\* Caller-supplied claim sets that hold reserved keys of their own.
ReservedClaimSets ==
    { [user_id |-> 7],
      [user_id |-> 7, type |-> "refresh", exp |-> 9, iat |-> 5, jti |-> 9],
      [user_id |-> 7, type |-> "access", jti |-> 9] }

\* expires_delta arguments of create_access_token: None or a timedelta.
TimeDelta(minutes) == [minutes |-> minutes]
Deltas == {None, TimeDelta(0), TimeDelta(-1)}

\* A string that is not a JWT at all.
Malformed == [payload |-> [malformed |-> TRUE], key |-> "none"]

----------------------------------------------------------------------------
(* Token codec (PyJWT as called from jwt_utils.py) *)

\* jwt.encode(to_encode, key, algorithm): datetimes become integer
\* timestamps; the string is determined by payload and key.
Encode(to_encode, key) == [payload |-> to_encode, key |-> key]

\* jwt.decode with a token accepted at the instant exp.
DecodeExclusive(token, key) ==
    IF token = Malformed THEN [ok |-> FALSE, error |-> "InvalidTokenError"]
    ELSE IF token.key # key THEN [ok |-> FALSE, error |-> "InvalidTokenError"]
    ELSE IF "exp" \in DOMAIN token.payload /\ token.payload.exp < now
         THEN [ok |-> FALSE, error |-> "ExpiredSignatureError"]
    ELSE [ok |-> TRUE, payload |-> token.payload]

\* jwt.decode(token, key, algorithms): the structure is checked first, then
\* the signature, then exp against the clock (expired when exp <= now).
Decode(token, key) ==
    IF token = Malformed THEN [ok |-> FALSE, error |-> "InvalidTokenError"]
    ELSE IF token.key # key THEN [ok |-> FALSE, error |-> "InvalidTokenError"]
    ELSE IF "exp" \in DOMAIN token.payload /\ token.payload.exp <= now
         THEN [ok |-> FALSE, error |-> "ExpiredSignatureError"]
    ELSE [ok |-> TRUE, payload |-> token.payload]

\* An update that keeps the values of the keys already present.
UpdateKeep(d, u) == d @@ u

\* dict.update: the right operand wins on common keys.
Update(d, u) == u @@ d

\* to_encode = data.copy(); to_encode.update(...): the caller's mapping
\* after the call that built to_encode from it.  The update goes to the
\* copy.
CallerData(data, to_encode) == data

\* dict.pop(key, None) for each key of ks.
Pop(d, ks) == [k \in (DOMAIN d) \ ks |-> d[k]]

\* dict.get(key, default)
Get(d, k, default) == IF k \in DOMAIN d THEN d[k] ELSE default

----------------------------------------------------------------------------
\* The module as imported: no configuration, no manager; an empty
\* collection; the server's time zone is whatever the host is set to.
Init ==
    /\ jwt_config = None
    /\ blacklist_manager = None
    /\ store = {}
    /\ now = 0
    /\ tz \in TZOffsets
    /\ uuid = 0
    /\ tokens = {}
    /\ last = [op |-> "init"]
    /\ revoked = {}
    /\ unchecked = {}
    /\ stats_call = None
    /\ running = [setting |-> FALSE, reader |-> None, verifying |-> None]

----------------------------------------------------------------------------
(* JWTConfig (config.py) *)

\* Values a YAML file gives an option: an integer, a boolean, a float, a
\* string or null (None).  isinstance(v, int) holds of integers and of
\* booleans, and int(v) of a boolean is 1 or 0.
YamlInt(n) == [int |-> n]
YamlBool(b) == [bool |-> b]
YamlFloat(whole, tenths) == [float |-> <<whole, tenths>>]
IsInstanceInt(v) == "int" \in DOMAIN v \/ "bool" \in DOMAIN v
IntOf(v) == IF "bool" \in DOMAIN v THEN (IF v.bool THEN 1 ELSE 0) ELSE v.int

\* str.strip() on the key strings that are tried.
Strip(s) == IF s \in {"", " ", "  "} THEN "" ELSE s

valid_algorithms == {"HS256", "HS384", "HS512", "RS256", "RS384", "RS512"}

\* JWTConfig.__init__ without the test `access_expires <= 0`.
JWTConfigInitUnchecked(secret_key, algorithm, access_expires, refresh_expires) ==
    IF secret_key = None \/ secret_key.str = "" \/ Strip(secret_key.str) = ""
    THEN [ok |-> FALSE, error |-> "ValueError"]
    ELSE IF ~IsInstanceInt(access_expires)
    THEN [ok |-> FALSE, error |-> "ValueError"]
    ELSE IF ~IsInstanceInt(refresh_expires) \/ IntOf(refresh_expires) <= 0
    THEN [ok |-> FALSE, error |-> "ValueError"]
    ELSE IF ~IsStr(algorithm) \/ algorithm.str \notin valid_algorithms
    THEN [ok |-> FALSE, error |-> "ValueError"]
    ELSE [ok |-> TRUE,
          config |-> [secret_key |-> secret_key.str,
                      algorithm |-> algorithm.str,
                      access_token_expires |-> IntOf(access_expires),
                      refresh_token_expires |-> IntOf(refresh_expires),
                      enable_blacklist |-> TRUE,
                      mongodb_api_url |-> Str("http://store"),
                      blacklist_collection |-> Str("jwt_blacklist")]]

\* JWTConfig.__init__(secret_key, config_file) for a file that is complete
\* and valid in its api and mongodb sections: the key is tested first, then
\* _validate_config_structure tests the lifetimes and the algorithm, then
\* the attributes are set.
JWTConfigInit(secret_key, algorithm, access_expires, refresh_expires) ==
    IF secret_key = None \/ secret_key.str = "" \/ Strip(secret_key.str) = ""
    THEN [ok |-> FALSE, error |-> "ValueError"]
    ELSE IF ~IsInstanceInt(access_expires) \/ IntOf(access_expires) <= 0
    THEN [ok |-> FALSE, error |-> "ValueError"]
    ELSE IF ~IsInstanceInt(refresh_expires) \/ IntOf(refresh_expires) <= 0
    THEN [ok |-> FALSE, error |-> "ValueError"]
    ELSE IF ~IsStr(algorithm) \/ algorithm.str \notin valid_algorithms
    THEN [ok |-> FALSE, error |-> "ValueError"]
    ELSE [ok |-> TRUE,
          config |-> [secret_key |-> secret_key.str,
                      algorithm |-> algorithm.str,
                      access_token_expires |-> IntOf(access_expires),
                      refresh_token_expires |-> IntOf(refresh_expires),
                      enable_blacklist |-> TRUE,
                      mongodb_api_url |-> Str("http://store"),
                      blacklist_collection |-> Str("jwt_blacklist")]]

----------------------------------------------------------------------------
(* BlacklistManager (blacklist.py) *)

\* BlacklistManager.__init__(mongodb_api_url, collection_name="jwt_blacklist",
\* jwt_config=None): mongodb_api_url has no default and must have rstrip;
\* jwt_config or JWTConfig() needs a config (JWTConfig() has required
\* parameters).
BlacklistManagerInit(url, collection, config) ==
    IF url = Missing THEN [ok |-> FALSE, error |-> "TypeError"]
    ELSE IF ~IsStr(url) THEN [ok |-> FALSE, error |-> "AttributeError"]
    ELSE IF config = None THEN [ok |-> FALSE, error |-> "TypeError"]
    ELSE [ok |-> TRUE,
          manager |-> [mongodb_api_url |-> url,
                       collection_name |-> collection,
                       jwt_config |-> config]]

\* _hash_token: the SHA-256 hex digest of the token string, a one-way,
\* collision-free function of the token.
HashToken(token) == [sha256 |-> token]

\* datetime.fromtimestamp(ts): the naive local wall-clock time of ts, later
\* sent as its ISO string.
FromTimestamp(ts) == [iso |-> ts + tz]

\* _get_token_expiration: decodes with the manager's own configuration;
\* None when decoding fails or exp is absent or zero.
GetTokenExpiration(manager, token) ==
    LET d == Decode(token, manager.jwt_config.secret_key)
    IN  IF d.ok /\ Get(d.payload, "exp", 0) # 0
        THEN FromTimestamp(d.payload.exp)
        ELSE None

\* How a request to the store can end: answered 200, answered with
\* another status, or requests.post raising (connection error, timeout).
Responses == {"ok", "status_error", "exception"}

\* The store's order on timestamp strings for {"$lt": now.isoformat()}: a
\* stored naive ISO string of whole seconds against the client's UTC
\* string of the current instant; null never matches.
StoreLess(expires_at, instant) ==
    expires_at # None /\ expires_at.iso <= instant

Documents(token_hash) == {d \in store : d.token_hash = token_hash}

\* add_to_blacklist sending the token string along with its digest.
BlacklistDocumentRaw(manager, token, reason) ==
    [token_hash |-> HashToken(token),
     token      |-> token,
     reason     |-> reason,
     revoked_at |-> now,
     expires_at |-> GetTokenExpiration(manager, token)]

\* add_to_blacklist: the document sent by the one insert request.
BlacklistDocument(manager, token, reason) ==
    [token_hash |-> HashToken(token),
     reason     |-> reason,
     revoked_at |-> now,
     expires_at |-> GetTokenExpiration(manager, token)]

\* The store gives every inserted document its own _id.
NextId ==
    IF store = {} THEN 1
    ELSE 1 + (CHOOSE i \in {d.id : d \in store} : \A d \in store : d.id <= i)

InsertOne(doc) == store \cup {[id |-> NextId] @@ doc}

\* A request sent to the store, with how it ended.
Request(verb, filter, resp) == [verb |-> verb, filter |-> filter, resp |-> resp]

\* is_blacklisted: one find request; True iff the 200 answer lists at
\* least one document, False on any other answer and on an exception.
IsBlacklisted(manager, token, resp) ==
    [result |-> IF resp = "ok" THEN Documents(HashToken(token)) # {} ELSE FALSE,
     reqs   |-> <<Request("find", HashToken(token), resp)>>]

\* How a request that changes the store can end: as above, or the store
\* applies it and the answer does not arrive within the timeout.
WriteResponses == Responses \cup {"timeout_after_write"}

Applied(resp) == resp \in {"ok", "timeout_after_write"}

\* add_to_blacklist returning True for every answer of the store, whatever
\* its status.
AddToBlacklistAnyStatus(manager, token, reason, resp) ==
    LET doc == BlacklistDocument(manager, token, reason)
    IN  [result |-> (resp \in {"ok", "status_error"}),
         store  |-> IF Applied(resp) THEN InsertOne(doc) ELSE store,
         reqs   |-> <<Request("insert", doc, resp)>>]

\* add_to_blacklist: one insert request; True iff it is answered 200.
AddToBlacklist(manager, token, reason, resp) ==
    LET doc == BlacklistDocument(manager, token, reason)
    IN  [result |-> (resp = "ok"),
         store  |-> IF Applied(resp) THEN InsertOne(doc) ELSE store,
         reqs   |-> <<Request("insert", doc, resp)>>]

\* remove_from_blacklist with a store that deletes the first match only.
RemoveFromBlacklistFirst(manager, token, resp) ==
    LET found == Documents(HashToken(token))
        first == IF found = {} THEN {}
                 ELSE {CHOOSE d \in found : \A e \in found : d.id <= e.id}
    IN  [result |-> (resp = "ok"),
         store  |-> IF Applied(resp) THEN store \ first ELSE store,
         reqs   |-> <<Request("delete", HashToken(token), resp)>>]

\* remove_from_blacklist sending its request again after a failure.
RemoveFromBlacklistRetry(manager, token, resp) ==
    [result |-> (resp = "ok"),
     store  |-> IF Applied(resp) THEN store \ Documents(HashToken(token)) ELSE store,
     reqs   |-> IF resp = "ok"
                THEN <<Request("delete", HashToken(token), resp)>>
                ELSE <<Request("delete", HashToken(token), resp),
                       Request("delete", HashToken(token), resp)>>]

\* remove_from_blacklist: one delete request filtered on the fingerprint;
\* True iff it is answered 200.
RemoveFromBlacklist(manager, token, resp) ==
    [result |-> (resp = "ok"),
     store  |-> IF Applied(resp) THEN store \ Documents(HashToken(token)) ELSE store,
     reqs   |-> <<Request("delete", HashToken(token), resp)>>]

Expired(instant) == {d \in store : StoreLess(d.expires_at, instant)}

\* cleanup_expired_tokens deleting one matching record per request.
CleanupExpiredTokensOne(manager, resp) ==
    LET one == IF Expired(now) = {} THEN {} ELSE {CHOOSE d \in Expired(now) : TRUE}
    IN  [result |-> IF resp = "ok" THEN Cardinality(one) ELSE 0,
         store  |-> IF Applied(resp) THEN store \ one ELSE store,
         reqs   |-> <<Request("delete", [expires_at_lt |-> now], resp)>>]

\* cleanup_expired_tokens: one delete request filtered on
\* expires_at < now; the answer's deleted_count, 0 on any failure.
CleanupExpiredTokens(manager, resp) ==
    [result |-> IF resp = "ok" THEN Cardinality(Expired(now)) ELSE 0,
     store  |-> IF Applied(resp) THEN store \ Expired(now) ELSE store,
     reqs   |-> <<Request("delete", [expires_at_lt |-> now], resp)>>]

NoStats == [total_tokens |-> 0, expired_tokens |-> 0, active_tokens |-> 0]

\* get_blacklist_stats reporting every counted record as active.
GetBlacklistStatsAll(total_count, resp) ==
    IF resp = "exception" THEN NoStats
    ELSE LET expired_count == IF resp = "ok" THEN Cardinality(Expired(now)) ELSE 0
         IN  [total_tokens   |-> total_count,
              expired_tokens |-> expired_count,
              active_tokens  |-> total_count]

\* get_blacklist_stats after its first count request was answered 200 with
\* total_count: the second count request, filtered on expires_at < now;
\* an answer other than 200 counts as 0 expired, an exception gives zeros.
GetBlacklistStats(total_count, resp) ==
    IF resp = "exception" THEN NoStats
    ELSE LET expired_count == IF resp = "ok" THEN Cardinality(Expired(now)) ELSE 0
         IN  [total_tokens   |-> total_count,
              expired_tokens |-> expired_count,
              active_tokens  |-> total_count - expired_count]

----------------------------------------------------------------------------
(* jwt_utils.py *)

\* _get_blacklist_manager: returns the cached manager, or builds one with
\* BlacklistManager(jwt_config=config) when the blacklist is enabled and a
\* URL is configured.  Called only with an active configuration.
GetBlacklistManager ==
    IF blacklist_manager # None THEN [ok |-> TRUE, manager |-> blacklist_manager]
    ELSE IF jwt_config.enable_blacklist /\ jwt_config.mongodb_api_url # None
         THEN BlacklistManagerInit(Missing, Str("jwt_blacklist"), jwt_config)
         ELSE [ok |-> TRUE, manager |-> None]

\* verify_token: its outcome for one answer of the store.  The jwt
\* exceptions are rewritten to the two messages; every other exception
\* leaves the function as it is.
VerifyToken(token, resp) ==
    IF jwt_config = None
    THEN [ok |-> FALSE, error |-> "RuntimeError", reqs |-> <<>>]
    ELSE
    LET d == Decode(token, jwt_config.secret_key)
        m == GetBlacklistManager
        b == IsBlacklisted(m.manager, token, resp)
    IN  IF ~d.ok
        THEN IF d.error = "ExpiredSignatureError"
             THEN [ok |-> FALSE, error |-> "Token has expired", reqs |-> <<>>]
             ELSE [ok |-> FALSE, error |-> "Invalid token", reqs |-> <<>>]
        ELSE IF ~m.ok THEN [ok |-> FALSE, error |-> m.error, reqs |-> <<>>]
        ELSE IF jwt_config.enable_blacklist /\ m.manager # None
             THEN IF b.result
                  THEN [ok |-> FALSE, error |-> "Token has been revoked",
                        reqs |-> b.reqs]
                  ELSE [ok |-> TRUE, payload |-> d.payload, reqs |-> b.reqs]
        ELSE [ok |-> TRUE, payload |-> d.payload, reqs |-> <<>>]

\* verify_access_token / verify_refresh_token
VerifyTyped(token, expected, resp) ==
    LET v == VerifyToken(token, resp)
    IN  IF ~v.ok THEN v
        ELSE IF "type" \notin DOMAIN v.payload \/ v.payload.type # expected
             THEN [ok |-> FALSE,
                   error |-> IF expected = "access"
                             THEN "Invalid token type: expected access token"
                             ELSE "Invalid token type: expected refresh token",
                   reqs |-> v.reqs]
        ELSE v

VerifyAccessToken(token, resp) == VerifyTyped(token, "access", resp)
VerifyRefreshToken(token, resp) == VerifyTyped(token, "refresh", resp)

\* uuid.uuid4() giving the same value at every call.
Uuid4Fixed(drawn) == 1

\* create_access_token(data, expires_delta): the claims that are encoded.
\* A falsy expires_delta (None, timedelta(0)) selects the configured lifetime.
\* str(uuid.uuid4()): a value never drawn before.
Uuid4(drawn) == drawn + 1

AccessClaims(data, expires_delta, drawn) ==
    Update(data,
           [exp  |-> IF expires_delta # None /\ expires_delta # TimeDelta(0)
                     THEN now + expires_delta.minutes
                     ELSE now + jwt_config.access_token_expires,
            type |-> "access",
            iat  |-> now,
            jti  |-> Uuid4(drawn)])

\* create_refresh_token(data)
RefreshClaims(data, drawn) ==
    Update(data,
           [exp  |-> now + jwt_config.refresh_token_expires,
            type |-> "refresh",
            iat  |-> now,
            jti  |-> Uuid4(drawn)])

\* refresh_access_token verifying with verify_token, whatever the type.
RefreshAccessTokenUntyped(token, resp) ==
    LET v == VerifyToken(token, resp)
    IN  IF ~v.ok THEN [result |-> None, reqs |-> v.reqs]
        ELSE [result |-> Encode(AccessClaims(Pop(v.payload, ReservedKeys), None, uuid),
                                jwt_config.secret_key),
              reqs   |-> v.reqs]

\* refresh_access_token: the refresh-typed verification, then a new access
\* token from the payload without exp, type, iat and jti; None on any
\* exception.
RefreshAccessToken(token, resp) ==
    LET v == VerifyRefreshToken(token, resp)
    IN  IF ~v.ok THEN [result |-> None, reqs |-> v.reqs]
        ELSE [result |-> Encode(AccessClaims(Pop(v.payload, ReservedKeys), None, uuid),
                                jwt_config.secret_key),
              reqs   |-> v.reqs]

\* revoke_token going on to add_to_blacklist whatever verify_token did.
RevokeTokenUnverified(token, reason, resp, wresp) ==
    LET v == VerifyToken(token, resp)
        m == GetBlacklistManager
        a == AddToBlacklist(m.manager, token, reason, wresp)
    IN  IF jwt_config = None \/ ~m.ok
        THEN [result |-> FALSE, store |-> store, reqs |-> v.reqs]
        ELSE IF jwt_config.enable_blacklist /\ m.manager # None
             THEN [result |-> a.result, store |-> a.store, reqs |-> v.reqs \o a.reqs]
        ELSE [result |-> FALSE, store |-> store, reqs |-> v.reqs]

\* revoke_token: verify_token first; then add_to_blacklist when the
\* blacklist is enabled and a manager exists; False on any exception.
RevokeToken(token, reason, resp, wresp) ==
    LET v == VerifyToken(token, resp)
        m == GetBlacklistManager
        a == AddToBlacklist(m.manager, token, reason, wresp)
    IN  IF ~v.ok THEN [result |-> FALSE, store |-> store, reqs |-> v.reqs]
        ELSE IF jwt_config.enable_blacklist /\ m.manager # None
             THEN [result |-> a.result, store |-> a.store, reqs |-> v.reqs \o a.reqs]
        ELSE [result |-> FALSE, store |-> store, reqs |-> v.reqs]

\* is_token_blacklisted asking the manager whatever enable_blacklist says.
IsTokenBlacklistedAlways(token, resp) ==
    IF jwt_config = None THEN [ok |-> FALSE, error |-> "RuntimeError", reqs |-> <<>>]
    ELSE
    LET m == GetBlacklistManager
        b == IsBlacklisted(m.manager, token, resp)
    IN  IF ~m.ok THEN [ok |-> FALSE, error |-> m.error, reqs |-> <<>>]
        ELSE IF m.manager = None
             THEN [ok |-> TRUE, result |-> FALSE, reqs |-> <<>>]
        ELSE [ok |-> TRUE, result |-> b.result, reqs |-> b.reqs]

\* is_token_blacklisted: the configuration and the manager are fetched
\* outside any try block.
IsTokenBlacklisted(token, resp) ==
    IF jwt_config = None THEN [ok |-> FALSE, error |-> "RuntimeError", reqs |-> <<>>]
    ELSE
    LET m == GetBlacklistManager
        b == IsBlacklisted(m.manager, token, resp)
    IN  IF ~m.ok THEN [ok |-> FALSE, error |-> m.error, reqs |-> <<>>]
        ELSE IF ~jwt_config.enable_blacklist \/ m.manager = None
             THEN [ok |-> TRUE, result |-> FALSE, reqs |-> <<>>]
        ELSE [ok |-> TRUE, result |-> b.result, reqs |-> b.reqs]

----------------------------------------------------------------------------
(* middleware.py *)

\* An Authorization header: absent (None), or a scheme and what follows
\* the first space ("" when nothing does).
Header(scheme, cred) == [scheme |-> scheme, cred |-> cred]
Headers(ts) ==
    {None, Header("Bearer", Str(""))}
    \cup {Header(sc, c) : sc \in {"Bearer", "Basic"}, c \in ts}

\* The token taken from the header: bearer.split(" ")[1] when the header
\* starts with "Bearer ", and `if not token` for the empty string.
ExtractToken(header) ==
    IF header = None THEN None
    ELSE IF header.scheme = "Bearer" /\ header.cred # Str("") THEN header.cred
    ELSE None

\* The arguments of role_required / permission_required: a str or a list.
List(xs) == [list |-> xs]
AsList(required) == IF IsStr(required) THEN {required.str} ELSE required.list

Rejected(status, error, reqs) ==
    [status |-> status, error |-> error, called |-> FALSE, reqs |-> reqs]
Delegated(current_user, reqs) ==
    [status |-> "f", called |-> TRUE, current_user |-> current_user, reqs |-> reqs]

\* token_required without the try block around verify_token.
TokenRequiredUnverified(header, resp) ==
    LET token == ExtractToken(header)
    IN  IF token = None THEN Rejected("401", "Token is missing", <<>>)
        ELSE Delegated(token.payload, <<>>)

\* token_required.decorated
TokenRequired(header, resp) ==
    LET token == ExtractToken(header)
        v == VerifyToken(token, resp)
    IN  IF token = None THEN Rejected("401", "Token is missing", <<>>)
        ELSE IF ~v.ok THEN Rejected("401", v.error, v.reqs)
        ELSE Delegated(v.payload, v.reqs)

\* admin_required answering 401 where the role test fails.
AdminRequiredUnauthenticated(header, resp) ==
    LET token == ExtractToken(header)
        v == VerifyToken(token, resp)
    IN  IF token = None THEN Rejected("401", "Token is missing", <<>>)
        ELSE IF ~v.ok THEN Rejected("401", v.error, v.reqs)
        ELSE IF "admin" \notin Get(v.payload, "roles", {})
             THEN Rejected("401", "Admin access required", v.reqs)
        ELSE Delegated(v.payload, v.reqs)

\* admin_required.decorated
AdminRequired(header, resp) ==
    LET token == ExtractToken(header)
        v == VerifyToken(token, resp)
    IN  IF token = None THEN Rejected("401", "Token is missing", <<>>)
        ELSE IF ~v.ok THEN Rejected("401", v.error, v.reqs)
        ELSE IF "admin" \notin Get(v.payload, "roles", {})
             THEN Rejected("403", "Admin access required", v.reqs)
        ELSE Delegated(v.payload, v.reqs)

\* role_required with all() in place of any().
RoleRequiredAll(required_roles, header, resp) ==
    LET token == ExtractToken(header)
        v == VerifyToken(token, resp)
        roles_list == AsList(required_roles)
        user_roles == Get(v.payload, "roles", {})
    IN  IF token = None THEN Rejected("401", "Token is missing", <<>>)
        ELSE IF ~v.ok THEN Rejected("401", v.error, v.reqs)
        ELSE IF ~(\A role \in roles_list : role \in user_roles)
             THEN Rejected("403", "Access denied. Required roles", v.reqs)
        ELSE Delegated(v.payload, v.reqs)

\* role_required(required_roles).decorated
RoleRequired(required_roles, header, resp) ==
    LET token == ExtractToken(header)
        v == VerifyToken(token, resp)
        roles_list == AsList(required_roles)
        user_roles == Get(v.payload, "roles", {})
    IN  IF token = None THEN Rejected("401", "Token is missing", <<>>)
        ELSE IF ~v.ok THEN Rejected("401", v.error, v.reqs)
        ELSE IF ~(\E role \in roles_list : role \in user_roles)
             THEN Rejected("403", "Access denied. Required roles", v.reqs)
        ELSE Delegated(v.payload, v.reqs)

\* permission_required with any() in place of all(), and with the
\* required permissions as the default of a missing permissions field.
PermissionRequiredAny(required_permissions, header, resp) ==
    LET token == ExtractToken(header)
        v == VerifyToken(token, resp)
        permissions_list == AsList(required_permissions)
        user_permissions == Get(v.payload, "permissions", {})
    IN  IF token = None THEN Rejected("401", "Token is missing", <<>>)
        ELSE IF ~v.ok THEN Rejected("401", v.error, v.reqs)
        ELSE IF ~(\E perm \in permissions_list : perm \in user_permissions)
             THEN Rejected("403", "Access denied. Required permissions", v.reqs)
        ELSE Delegated(v.payload, v.reqs)

PermissionRequiredOpen(required_permissions, header, resp) ==
    LET token == ExtractToken(header)
        v == VerifyToken(token, resp)
        permissions_list == AsList(required_permissions)
        user_permissions == Get(v.payload, "permissions", permissions_list)
    IN  IF token = None THEN Rejected("401", "Token is missing", <<>>)
        ELSE IF ~v.ok THEN Rejected("401", v.error, v.reqs)
        ELSE IF ~(\A perm \in permissions_list : perm \in user_permissions)
             THEN Rejected("403", "Access denied. Required permissions", v.reqs)
        ELSE Delegated(v.payload, v.reqs)

\* permission_required(required_permissions).decorated
PermissionRequired(required_permissions, header, resp) ==
    LET token == ExtractToken(header)
        v == VerifyToken(token, resp)
        permissions_list == AsList(required_permissions)
        user_permissions == Get(v.payload, "permissions", {})
    IN  IF token = None THEN Rejected("401", "Token is missing", <<>>)
        ELSE IF ~v.ok THEN Rejected("401", v.error, v.reqs)
        ELSE IF ~(\A perm \in permissions_list : perm \in user_permissions)
             THEN Rejected("403", "Access denied. Required permissions", v.reqs)
        ELSE Delegated(v.payload, v.reqs)

----------------------------------------------------------------------------
(* Operations *)

\* Token strings a caller can present.
Inputs == tokens \cup {Malformed}

RoleArgs == {Str("admin"), List({"manager", "user"}), List({})}
PermissionArgs == {Str("read"), List({"read", "write"}), List({})}

Reasons == {"revoked"}

\* set_jwt_config without the reset of the cached manager.
SetJwtConfigKeep(config) ==
    /\ jwt_config' = config
    /\ last' = [op |-> "set_jwt_config", config |-> config]
    /\ UNCHANGED <<running, stats_call, unchecked, revoked, blacklist_manager, store, now, tz, uuid, tokens>>

\* set_jwt_config(config)
SetJwtConfig(config) ==
    /\ jwt_config' = config
    /\ blacklist_manager' = None
    /\ last' = [op |-> "set_jwt_config", config |-> config]
    /\ UNCHANGED <<running, stats_call, unchecked, revoked, store, now, tz, uuid, tokens>>

\* The embedding code puts a manager built with
\* BlacklistManager(mongodb_api_url, collection_name, jwt_config) into the
\* module's cache, as the tests do by patching _get_blacklist_manager.
InstallManager ==
    /\ jwt_config # None
    /\ LET m == BlacklistManagerInit(jwt_config.mongodb_api_url,
                                     jwt_config.blacklist_collection, jwt_config)
       IN  blacklist_manager' = m.manager
    /\ last' = [op |-> "install_manager"]
    /\ UNCHANGED <<running, stats_call, unchecked, revoked, jwt_config, store, now, tz, uuid, tokens>>

\* initialize_blacklist_system(collection_name): builds
\* BlacklistManager(jwt_config, collection_name); any exception gives False.
InitializeBlacklistSystem ==
    /\ LET m == IF jwt_config = None THEN [ok |-> FALSE, error |-> "RuntimeError"]
                ELSE BlacklistManagerInit(jwt_config, None, None)
       IN  /\ blacklist_manager' = IF m.ok THEN m.manager ELSE blacklist_manager
           /\ last' = [op |-> "initialize_blacklist_system", result |-> m.ok]
    /\ UNCHANGED <<running, stats_call, unchecked, revoked, jwt_config, store, now, tz, uuid, tokens>>

\* The clock advances.
Tick ==
    /\ now < MaxTime
    /\ now' = now + 1
    /\ last' = [op |-> "tick"]
    /\ UNCHANGED <<running, stats_call, unchecked, revoked, jwt_config, blacklist_manager, store, tz, uuid, tokens>>

Raised(op, error) == [op |-> op, ok |-> FALSE, error |-> error]

\* create_access_token(data, expires_delta)
CreateAccessToken(data, expires_delta) ==
    /\ Cardinality(tokens) < MaxTokens
    /\ IF jwt_config = None
       THEN /\ last' = Raised("create_access_token", "RuntimeError")
            /\ UNCHANGED <<uuid, tokens>>
       ELSE LET t == Encode(AccessClaims(data, expires_delta, uuid),
                            jwt_config.secret_key)
            IN  /\ tokens' = tokens \cup {t}
                /\ uuid' = uuid + 1
                /\ last' = [op |-> "create_access_token", ok |-> TRUE, data |-> data,
                            expires_delta |-> expires_delta, result |-> t,
                            data_after |-> CallerData(data, t.payload)]
    /\ UNCHANGED <<running, stats_call, unchecked, revoked, jwt_config, blacklist_manager, store, now, tz>>

\* create_refresh_token(data)
CreateRefreshToken(data) ==
    /\ Cardinality(tokens) < MaxTokens
    /\ IF jwt_config = None
       THEN /\ last' = Raised("create_refresh_token", "RuntimeError")
            /\ UNCHANGED <<uuid, tokens>>
       ELSE LET t == Encode(RefreshClaims(data, uuid), jwt_config.secret_key)
            IN  /\ tokens' = tokens \cup {t}
                /\ uuid' = uuid + 1
                /\ last' = [op |-> "create_refresh_token", ok |-> TRUE,
                            data |-> data, result |-> t,
                            data_after |-> CallerData(data, t.payload)]
    /\ UNCHANGED <<running, stats_call, unchecked, revoked, jwt_config, blacklist_manager, store, now, tz>>

\* create_token_pair(data): create_access_token, then create_refresh_token.
CreateTokenPair(data) ==
    /\ Cardinality(tokens) + 1 < MaxTokens
    /\ IF jwt_config = None
       THEN /\ last' = Raised("create_token_pair", "RuntimeError")
            /\ UNCHANGED <<uuid, tokens>>
       ELSE LET a == Encode(AccessClaims(data, None, uuid), jwt_config.secret_key)
                r == Encode(RefreshClaims(data, uuid + 1), jwt_config.secret_key)
            IN  /\ tokens' = tokens \cup {a, r}
                /\ uuid' = uuid + 2
                /\ last' = [op |-> "create_token_pair", ok |-> TRUE, data |-> data,
                            access_token |-> a, refresh_token |-> r]
    /\ UNCHANGED <<running, stats_call, unchecked, revoked, jwt_config, blacklist_manager, store, now, tz>>

\* A token encoded by other code with jwt.encode and one of the keys,
\* with no type claim or with another type (tests/test_verification.py).
ForeignTypes == {None, Str("other")}

ExternalEncode(data, key, type) ==
    /\ Cardinality(tokens) < MaxTokens
    /\ LET claims == Update(data, [exp |-> now + 1, iat |-> now])
           t == Encode(IF type = None THEN claims
                       ELSE Update(claims, [type |-> type.str]), key)
       IN  /\ tokens' = tokens \cup {t}
           /\ last' = [op |-> "jwt.encode", result |-> t]
    /\ UNCHANGED <<running, stats_call, unchecked, revoked, jwt_config, blacklist_manager, store, now, tz, uuid>>

ReadOnly == UNCHANGED <<running, stats_call, unchecked, revoked, jwt_config, blacklist_manager, store, now, tz, uuid, tokens>>

\* Arguments and file values a JWTConfig is constructed from.
SecretKeys == {None, Str(""), Str("  "), Str("k1")}
Algorithms == {Str("HS256"), Str("RS512"), Str("none"), None}
Lifetimes ==
    {YamlInt(-1), YamlInt(0), YamlInt(1), YamlInt(2), YamlBool(TRUE),
     YamlFloat(1, 5), Str("30"), None}

\* JWTConfig(secret_key, config_file)
ConstructJWTConfig(secret_key, algorithm, access_expires, refresh_expires) ==
    /\ last' = [op |-> "JWTConfig", secret_key |-> secret_key,
                algorithm |-> algorithm, access_expires |-> access_expires,
                refresh_expires |-> refresh_expires]
               @@ JWTConfigInit(secret_key, algorithm, access_expires, refresh_expires)
    /\ ReadOnly

\* set_jwt_config with the configuration just constructed.
SetConstructedConfig ==
    /\ last.op = "JWTConfig"
    /\ last.ok
    /\ SetJwtConfig(last.config)

\* verify_token(token)
CallVerifyToken(token, resp) ==
    LET v == VerifyToken(token, resp)
    IN  /\ last' = [op |-> "verify_token", token |-> token] @@ v
        /\ unchecked' = IF v.ok /\ v.reqs # <<>> /\ resp # "ok"
                        THEN unchecked \cup {jwt_config}
                        ELSE unchecked
        /\ UNCHANGED <<running, stats_call, revoked, jwt_config, blacklist_manager, store, now, tz,
                       uuid, tokens>>

\* verify_access_token(token)
CallVerifyAccessToken(token, resp) ==
    /\ last' = [op |-> "verify_access_token", token |-> token]
               @@ VerifyAccessToken(token, resp)
    /\ ReadOnly

\* verify_refresh_token(token)
CallVerifyRefreshToken(token, resp) ==
    /\ last' = [op |-> "verify_refresh_token", token |-> token]
               @@ VerifyRefreshToken(token, resp)
    /\ ReadOnly

\* is_token_blacklisted(token)
CallIsTokenBlacklisted(token, resp) ==
    /\ last' = [op |-> "is_token_blacklisted", token |-> token]
               @@ IsTokenBlacklisted(token, resp)
    /\ ReadOnly

\* refresh_access_token that also blacklists the refresh token it used.
CallRefreshAccessTokenRotating(token, resp) ==
    LET r == RefreshAccessToken(token, resp)
    IN  /\ (r.result # None) => Cardinality(tokens) < MaxTokens
        /\ tokens' = IF r.result # None THEN tokens \cup {r.result} ELSE tokens
        /\ uuid' = IF r.result # None THEN uuid + 1 ELSE uuid
        /\ last' = [op |-> "refresh_access_token", token |-> token] @@ r
        /\ store' = IF r.result # None /\ GetBlacklistManager.manager # None
                    THEN InsertOne(BlacklistDocument(GetBlacklistManager.manager,
                                                     token, "rotated"))
                    ELSE store
        /\ UNCHANGED <<running, stats_call, unchecked, revoked, jwt_config, blacklist_manager, now, tz>>

\* refresh_access_token(refresh_token)
CallRefreshAccessToken(token, resp) ==
    LET r == RefreshAccessToken(token, resp)
    IN  /\ (r.result # None) => Cardinality(tokens) < MaxTokens
        /\ tokens' = IF r.result # None THEN tokens \cup {r.result} ELSE tokens
        /\ uuid' = IF r.result # None THEN uuid + 1 ELSE uuid
        /\ last' = [op |-> "refresh_access_token", token |-> token] @@ r
        /\ UNCHANGED <<running, stats_call, unchecked, revoked, jwt_config, blacklist_manager, store, now, tz>>

\* revoke_token(token, reason)
CallRevokeToken(token, reason, resp, wresp) ==
    LET r == RevokeToken(token, reason, resp, wresp)
    IN  /\ Cardinality(r.store) <= MaxRecords
        /\ store' = r.store
        /\ last' = [op |-> "revoke_token", token |-> token,
                    result |-> r.result, reqs |-> r.reqs]
        /\ revoked' = IF r.result THEN revoked \cup {token} ELSE revoked
        /\ UNCHANGED <<running, stats_call, unchecked, jwt_config, blacklist_manager, now, tz, uuid, tokens>>

\* The store after one more insert into the collection st.
InsertAfter(st, doc) ==
    st \cup {[id |-> IF st = {} THEN 1
                     ELSE 1 + (CHOOSE i \in {d.id : d \in st} :
                                  \A d \in st : d.id <= i)] @@ doc}

\* Two revoke_token(token, reason) calls of two requests that overlap:
\* both run verify_token before either sends its insert.  (Every other
\* order of their requests is one call after the other.)
CallRevokeTokenConcurrently(token, reason, resp1, resp2, wresp1, wresp2) ==
    LET r1 == RevokeToken(token, reason, resp1, wresp1)
        v2 == VerifyToken(token, resp2)
        m  == GetBlacklistManager
        sent2 == v2.ok /\ jwt_config.enable_blacklist /\ m.manager # None
        doc2 == BlacklistDocument(m.manager, token, reason)
        r2 == IF sent2
              THEN [result |-> (wresp2 = "ok"),
                    store  |-> IF Applied(wresp2) THEN InsertAfter(r1.store, doc2)
                               ELSE r1.store]
              ELSE [result |-> FALSE, store |-> r1.store]
    IN  /\ Cardinality(r2.store) <= MaxRecords
        /\ store' = r2.store
        /\ last' = [op |-> "revoke_token_concurrently", token |-> token,
                    results |-> <<r1.result, r2.result>>,
                    inserted |-> Cardinality(r2.store) - Cardinality(store)]
        /\ revoked' = IF r1.result \/ r2.result THEN revoked \cup {token} ELSE revoked
        /\ UNCHANGED <<running, stats_call, unchecked, jwt_config, blacklist_manager, now, tz, uuid, tokens>>

\* revoke_token_pair that gives up after a failed revocation of the access
\* token.
CallRevokeTokenPairShortCircuit(access_token, refresh_token, reason, resp, wresp) ==
    LET r1 == RevokeToken(access_token, reason \o "_access", resp, wresp)
    IN  /\ access_token # refresh_token
        /\ r1.result = FALSE
        /\ store' = r1.store
        /\ last' = [op |-> "revoke_token_pair", access_token |-> access_token,
                    refresh_token |-> refresh_token, reason |-> reason,
                    answers |-> <<resp, wresp>>,
                    results |-> <<FALSE, FALSE>>, result |-> FALSE]
        /\ UNCHANGED <<running, stats_call, unchecked, revoked, jwt_config, blacklist_manager, now,
                       tz, uuid, tokens>>

\* revoke_token_pair(access_token, refresh_token, reason): revoke_token on
\* each of two different token strings, the second after the first, with
\* the reasons reason_access and reason_refresh; True iff both returned
\* True.
CallRevokeTokenPair(access_token, refresh_token, reason, resp, wresp) ==
    LET r1 == RevokeToken(access_token, reason \o "_access", resp, wresp)
        v2 == VerifyToken(refresh_token, resp)
        m  == GetBlacklistManager
        sent2 == v2.ok /\ jwt_config.enable_blacklist /\ m.manager # None
        doc2 == BlacklistDocument(m.manager, refresh_token, reason \o "_refresh")
        r2 == IF sent2
              THEN [result |-> (wresp = "ok"),
                    store  |-> IF Applied(wresp) THEN InsertAfter(r1.store, doc2)
                               ELSE r1.store]
              ELSE [result |-> FALSE, store |-> r1.store]
    IN  /\ access_token # refresh_token
        /\ Cardinality(r2.store) <= MaxRecords
        /\ store' = r2.store
        /\ last' = [op |-> "revoke_token_pair", access_token |-> access_token,
                    refresh_token |-> refresh_token, reason |-> reason,
                    answers |-> <<resp, wresp>>,
                    results |-> <<r1.result, r2.result>>,
                    result |-> (r1.result /\ r2.result)]
        /\ revoked' = revoked \cup (IF r1.result THEN {access_token} ELSE {})
                              \cup (IF r2.result THEN {refresh_token} ELSE {})
        /\ UNCHANGED <<running, stats_call, unchecked, jwt_config, blacklist_manager, now, tz, uuid,
                       tokens>>

\* add_to_blacklist(token, reason) called on the cached manager itself, as
\* the embedding code and the tests do, with any string as token.
CallAddToBlacklist(token, reason, wresp) ==
    /\ blacklist_manager # None
    /\ LET a == AddToBlacklist(blacklist_manager, token, reason, wresp)
       IN  /\ Cardinality(a.store) <= MaxRecords
           /\ store' = a.store
           /\ last' = [op |-> "add_to_blacklist", token |-> token, reason |-> reason,
                       result |-> a.result, reqs |-> a.reqs]
    /\ UNCHANGED <<running, stats_call, unchecked, revoked, jwt_config, blacklist_manager, now,
                   tz, uuid, tokens>>

\* remove_from_blacklist(token) of jwt_utils
CallRemoveFromBlacklist(token, wresp) ==
    /\ jwt_config # None
    /\ LET m == GetBlacklistManager
           r == RemoveFromBlacklist(m.manager, token, wresp)
       IN  IF ~m.ok
           THEN /\ last' = Raised("remove_from_blacklist", m.error)
                /\ UNCHANGED store
           ELSE IF ~jwt_config.enable_blacklist \/ m.manager = None
           THEN /\ last' = [op |-> "remove_from_blacklist", ok |-> TRUE,
                            token |-> token, result |-> FALSE, reqs |-> <<>>]
                /\ UNCHANGED store
           ELSE /\ last' = [op |-> "remove_from_blacklist", ok |-> TRUE,
                            token |-> token, result |-> r.result, reqs |-> r.reqs,
                            revoked |-> (token \in revoked)]
                /\ store' = r.store
    /\ revoked' = revoked \ {token}
    /\ UNCHANGED <<running, stats_call, unchecked, jwt_config, blacklist_manager, now, tz, uuid, tokens>>

\* cleanup_expired_blacklist_tokens() of jwt_utils
CallCleanupExpired(wresp) ==
    /\ jwt_config # None
    /\ LET m == GetBlacklistManager
           r == CleanupExpiredTokens(m.manager, wresp)
       IN  IF ~m.ok
           THEN /\ last' = Raised("cleanup_expired_blacklist_tokens", m.error)
                /\ UNCHANGED store
           ELSE IF ~jwt_config.enable_blacklist \/ m.manager = None
           THEN /\ last' = [op |-> "cleanup_expired_blacklist_tokens", ok |-> TRUE,
                            result |-> 0, reqs |-> <<>>, previous |-> last.op]
                /\ UNCHANGED store
           ELSE /\ last' = [op |-> "cleanup_expired_blacklist_tokens", ok |-> TRUE,
                            result |-> r.result, reqs |-> r.reqs,
                            previous |-> last.op]
                /\ store' = r.store
    /\ UNCHANGED <<running, stats_call, unchecked, revoked, jwt_config, blacklist_manager, now, tz, uuid, tokens>>

\* get_blacklist_statistics() of jwt_utils, up to the answer to the first
\* count request of get_blacklist_stats: zeros unless it is answered 200.
CallGetBlacklistStatistics(resp) ==
    /\ jwt_config # None
    /\ stats_call = None
    /\ LET m == GetBlacklistManager
           req == Request("count", [all |-> TRUE], resp)
       IN  IF ~m.ok
           THEN /\ last' = Raised("get_blacklist_statistics", m.error)
                /\ UNCHANGED stats_call
           ELSE IF ~jwt_config.enable_blacklist \/ m.manager = None
           THEN /\ last' = [op |-> "get_blacklist_statistics", ok |-> TRUE,
                            result |-> NoStats, reqs |-> <<>>, quiet |-> TRUE,
                            config |-> jwt_config]
                /\ UNCHANGED stats_call
           ELSE IF resp # "ok"
           THEN /\ last' = [op |-> "get_blacklist_statistics", ok |-> TRUE,
                            result |-> NoStats, reqs |-> <<req>>, quiet |-> TRUE,
                            config |-> jwt_config]
                /\ UNCHANGED stats_call
           ELSE /\ last' = [op |-> "count", reqs |-> <<req>>]
                /\ stats_call' = [total_count |-> Cardinality(store), reqs |-> <<req>>,
                                  store |-> store, now |-> now, config |-> jwt_config]
    /\ UNCHANGED <<running, unchecked, revoked, jwt_config, blacklist_manager, store, now, tz,
                   uuid, tokens>>

\* The rest of get_blacklist_stats: the second count request and the
\* result.  quiet: the collection and the clock are as they were at the
\* first count (began); config: the configuration the call read when it
\* began.
ReturnBlacklistStatistics(resp) ==
    /\ stats_call # None
    /\ last' = [op |-> "get_blacklist_statistics", ok |-> TRUE,
                result |-> GetBlacklistStats(stats_call.total_count, resp),
                reqs |-> stats_call.reqs
                         \o <<Request("count", [expires_at_lt |-> now], resp)>>,
                quiet |-> (stats_call.store = store /\ stats_call.now = now),
                began |-> [store |-> stats_call.store, now |-> stats_call.now],
                config |-> stats_call.config]
    /\ stats_call' = None
    /\ UNCHANGED <<running, unchecked, revoked, jwt_config, blacklist_manager, store, now, tz,
                   uuid, tokens>>

\* A request to a route wrapped by one of the decorators.
CallTokenRequired(header, resp) ==
    /\ last' = [op |-> "token_required", header |-> header]
               @@ TokenRequired(header, resp)
    /\ ReadOnly

CallAdminRequired(header, resp) ==
    /\ last' = [op |-> "admin_required", header |-> header]
               @@ AdminRequired(header, resp)
    /\ ReadOnly

CallRoleRequired(required, header, resp) ==
    /\ last' = [op |-> "role_required", required |-> required, header |-> header]
               @@ RoleRequired(required, header, resp)
    /\ ReadOnly

CallPermissionRequired(required, header, resp) ==
    /\ last' = [op |-> "permission_required", required |-> required,
                header |-> header]
               @@ PermissionRequired(required, header, resp)
    /\ ReadOnly

(***************************************************************************)
(* Overlapping calls.  A thread can be suspended between any two accesses  *)
(* to the module globals; the actions below are the parts of               *)
(* set_jwt_config, and of the calls that read both globals, between which  *)
(* another thread can run.                                                 *)
(***************************************************************************)

\* set_jwt_config, its first assignment: _jwt_config = config
BeginSetJwtConfig(config) ==
    /\ ~running.setting
    /\ jwt_config' = config
    /\ running' = [running EXCEPT !.setting = TRUE]
    /\ last' = [op |-> "_jwt_config = config", config |-> config]
    /\ UNCHANGED <<stats_call, unchecked, revoked, blacklist_manager, store, now, tz, uuid,
                   tokens>>

\* set_jwt_config, its second assignment: _blacklist_manager = None
EndSetJwtConfig ==
    /\ running.setting
    /\ blacklist_manager' = None
    /\ running' = [running EXCEPT !.setting = FALSE]
    /\ last' = [op |-> "set_jwt_config", config |-> jwt_config]
    /\ UNCHANGED <<stats_call, unchecked, revoked, jwt_config, store, now, tz, uuid, tokens>>

ThreadedOps == {"verify_token", "is_token_blacklisted", "revoke_token"}

\* The first access of a call: jwt_config = _get_jwt_config(), in
\* revoke_token after its verify_token(token) has returned.
BeginCall(op, token) ==
    /\ running.reader = None
    /\ jwt_config # None
    /\ (op = "revoke_token") => VerifyToken(token, "ok").ok
    /\ running' = [running EXCEPT
                      !.reader = [op |-> op, token |-> token, config |-> jwt_config]]
    /\ last' = [op |-> "_get_jwt_config", call |-> op]
    /\ UNCHANGED <<stats_call, unchecked, revoked, jwt_config, blacklist_manager, store, now,
                   tz, uuid, tokens>>

\* What the call does with the configuration it read and the manager that
\* _get_blacklist_manager() then gave it; client is the manager it sent a
\* request through, None when it sent none.
Outcome(call, m, resp, wresp) ==
    LET d == Decode(call.token, call.config.secret_key)
        used == m.ok /\ call.config.enable_blacklist /\ m.manager # None
        b == IsBlacklisted(m.manager, call.token, resp)
        a == AddToBlacklist(m.manager, call.token, "revoked", wresp)
        unused == [client |-> None, store |-> store, reqs |-> <<>>]
    IN  IF call.op = "verify_token"
        THEN IF ~d.ok
             THEN [ok |-> FALSE,
                   error |-> IF d.error = "ExpiredSignatureError"
                             THEN "Token has expired" ELSE "Invalid token"] @@ unused
             ELSE IF ~m.ok THEN [ok |-> FALSE, error |-> m.error] @@ unused
             ELSE IF ~used THEN [ok |-> TRUE, payload |-> d.payload] @@ unused
             ELSE IF b.result
                  THEN [ok |-> FALSE, error |-> "Token has been revoked",
                        client |-> m.manager, store |-> store, reqs |-> b.reqs]
                  ELSE [ok |-> TRUE, payload |-> d.payload,
                        client |-> m.manager, store |-> store, reqs |-> b.reqs]
        ELSE IF call.op = "is_token_blacklisted"
        THEN IF ~m.ok THEN [ok |-> FALSE, error |-> m.error] @@ unused
             ELSE IF ~used THEN [ok |-> TRUE, result |-> FALSE] @@ unused
             ELSE [ok |-> TRUE, result |-> b.result,
                   client |-> m.manager, store |-> store, reqs |-> b.reqs]
        ELSE IF ~used THEN [ok |-> TRUE, result |-> FALSE] @@ unused
             ELSE [ok |-> TRUE, result |-> a.result,
                   client |-> m.manager, store |-> a.store, reqs |-> a.reqs]

\* The rest of the call: blacklist_manager = _get_blacklist_manager(), then
\* the use of the two.
EndCall(resp, wresp) ==
    /\ running.reader # None
    /\ LET call == running.reader
           m == IF blacklist_manager = None /\ jwt_config = None
                THEN [ok |-> FALSE, error |-> "RuntimeError"]
                ELSE GetBlacklistManager
           o == Outcome(call, m, resp, wresp)
       IN  /\ Cardinality(o.store) <= MaxRecords
           /\ store' = o.store
           /\ last' = [op |-> call.op, token |-> call.token, config |-> call.config,
                       overlapped |-> TRUE]
                      @@ [k \in DOMAIN o \ {"store"} |-> o[k]]
           /\ revoked' = IF call.op = "revoke_token" /\ o.result
                         THEN revoked \cup {call.token} ELSE revoked
    /\ running' = [running EXCEPT !.reader = None]
    /\ UNCHANGED <<stats_call, unchecked, jwt_config, blacklist_manager, now, tz, uuid, tokens>>

(***************************************************************************)
(* One verify_token call, step by step: Decoding, then either a terminal   *)
(* state or RevocationCheck, where the find request is out and the call    *)
(* waits for the store up to the timeout of requests.post.                 *)
(***************************************************************************)

\* timeout=10 of requests.post in is_blacklisted, in seconds.
Timeout == 10

\* verify_token(token) is called.
StartVerifyToken(token) ==
    /\ running.verifying = None
    /\ running' = [running EXCEPT
                      !.verifying = [token |-> token, stage |-> "Decoding", waited |-> 0]]
    /\ last' = [op |-> "verify_token called", token |-> token]
    /\ UNCHANGED <<stats_call, unchecked, revoked, jwt_config, blacklist_manager, store, now,
                   tz, uuid, tokens>>

\* The call returns or raises: what verify_token makes of the way its
\* request ended.
Finish(call, resp) ==
    LET v == VerifyToken(call.token, resp)
    IN  /\ last' = [op |-> "verify_token", token |-> call.token,
                    waited |-> call.waited, answer |-> resp] @@ v
        /\ running' = [running EXCEPT !.verifying = None]
        /\ unchecked' = IF v.ok /\ v.reqs # <<>> /\ resp # "ok"
                        THEN unchecked \cup {jwt_config}
                        ELSE unchecked
        /\ UNCHANGED <<stats_call, revoked, jwt_config, blacklist_manager, store, now, tz,
                       uuid, tokens>>

\* jwt.decode and _get_blacklist_manager(): the call ends here, or it
\* sends its find request.
DecodeStep ==
    /\ running.verifying # None
    /\ running.verifying.stage = "Decoding"
    /\ LET call == running.verifying
       IN  IF VerifyToken(call.token, "ok").reqs # <<>>
           THEN /\ running' = [running EXCEPT !.verifying.stage = "RevocationCheck"]
                /\ last' = [op |-> "find sent", token |-> call.token]
                /\ UNCHANGED <<stats_call, unchecked, revoked, jwt_config, blacklist_manager,
                               store, now, tz, uuid, tokens>>
           ELSE Finish(call, "ok")

\* The store answers, or the connection fails, before the timeout.
StoreAnswers(resp) ==
    /\ running.verifying # None
    /\ running.verifying.stage = "RevocationCheck"
    /\ Finish(running.verifying, resp)

\* A second passes without an answer.
Wait ==
    /\ running.verifying # None
    /\ running.verifying.stage = "RevocationCheck"
    /\ running.verifying.waited < Timeout
    /\ running' = [running EXCEPT !.verifying.waited = @ + 1]
    /\ last' = [op |-> "waiting", token |-> running.verifying.token]
    /\ UNCHANGED <<stats_call, unchecked, revoked, jwt_config, blacklist_manager, store, now,
                   tz, uuid, tokens>>

\* is_blacklisted sending its request again when the timeout strikes.
TimeoutExpiresRetry ==
    /\ running.verifying # None
    /\ running.verifying.stage = "RevocationCheck"
    /\ running.verifying.waited = Timeout
    /\ running' = [running EXCEPT !.verifying.waited = 0]
    /\ last' = [op |-> "find sent", token |-> running.verifying.token]
    /\ UNCHANGED <<stats_call, unchecked, revoked, jwt_config, blacklist_manager, store, now,
                   tz, uuid, tokens>>

\* The timeout strikes: requests.post raises, is_blacklisted returns False.
TimeoutExpires ==
    /\ running.verifying # None
    /\ running.verifying.stage = "RevocationCheck"
    /\ running.verifying.waited = Timeout
    /\ Finish(running.verifying, "exception")

(***************************************************************************)
(* Specifications.  Each lets the environment call a group of operations   *)
(* in any order from the state after import; the groups keep the           *)
(* reachable states within what can be enumerated.                         *)
(***************************************************************************)

Configure ==
    \/ \E c \in Configs \cup {None} : SetJwtConfig(c)
    \/ InstallManager
    \/ Tick

\* Revocation: one token at a time is issued, verified, revoked,
\* unrevoked and swept.
Next ==
    \/ Configure
    \/ InitializeBlacklistSystem
    \/ \E d \in {[user_id |-> 7]}, delta \in Deltas :
          tokens = {} /\ CreateAccessToken(d, delta)
    \/ \E d \in {[user_id |-> 7]} :
          tokens = {} /\ CreateRefreshToken(d)
    \/ \E t \in Inputs, resp \in Responses : CallVerifyToken(t, resp)
    \/ \E t \in Inputs, resp \in Responses : CallIsTokenBlacklisted(t, resp)
    \/ \E t \in Inputs, reason \in Reasons, resp \in Responses, wresp \in WriteResponses :
          CallRevokeToken(t, reason, resp, wresp)
    \/ \E t \in Inputs, wresp \in WriteResponses : CallRemoveFromBlacklist(t, wresp)
    \/ \E wresp \in WriteResponses : CallCleanupExpired(wresp)

Spec == Init /\ [][Next]_vars

\* The same state on a host whose local time is UTC.
InitUTC == Init /\ tz = 0

\* Answers of the store that the other specifications let happen.
Answers == {"ok", "exception"}
WriteAnswers == {"ok", "status_error"}

\* Issuance and verification: a token is issued, or encoded elsewhere, and
\* verified plainly and by type; it may be revoked in between.
NextTokens ==
    \/ Configure
    \/ \E d \in ClaimSets, delta \in Deltas :
          tokens = {} /\ CreateAccessToken(d, delta)
    \/ \E d \in ClaimSets : tokens = {} /\ CreateRefreshToken(d)
    \/ \E k \in Keys, ty \in ForeignTypes :
          tokens = {} /\ ExternalEncode([user_id |-> 7], k, ty)
    \/ \E t \in Inputs, resp \in Answers, wresp \in WriteAnswers :
          CallRevokeToken(t, "revoked", resp, wresp)
    \/ \E t \in Inputs, resp \in Answers : CallVerifyToken(t, resp)
    \/ \E t \in Inputs, resp \in Answers : CallVerifyAccessToken(t, resp)
    \/ \E t \in Inputs, resp \in Answers : CallVerifyRefreshToken(t, resp)

SpecTokens == InitUTC /\ [][NextTokens]_vars

\* The refresh protocol: a token pair is issued, its tokens are revoked or
\* left to expire, and the refresh token is exchanged.
NextRefresh ==
    \/ Configure
    \/ \E d \in ClaimSets : tokens = {} /\ CreateTokenPair(d)
    \/ \E t \in Inputs, resp \in Answers, wresp \in WriteAnswers :
          CallRevokeToken(t, "revoked", resp, wresp)
    \/ \E t \in Inputs, resp \in Answers : CallRefreshAccessToken(t, resp)
    \/ \E t \in Inputs, resp \in Answers : CallVerifyAccessToken(t, resp)

SpecRefresh == InitUTC /\ [][NextRefresh]_vars

\* The access guard: requests with and without a bearer token reach the
\* four decorators.
NextGuard ==
    \/ Configure
    \/ \E d \in ClaimSets : tokens = {} /\ CreateAccessToken(d, None)
    \/ \E t \in Inputs, resp \in Answers, wresp \in WriteAnswers :
          CallRevokeToken(t, "revoked", resp, wresp)
    \/ \E h \in Headers(Inputs), resp \in Answers : CallTokenRequired(h, resp)
    \/ \E h \in Headers(Inputs), resp \in Answers : CallAdminRequired(h, resp)
    \/ \E r \in RoleArgs, h \in Headers(Inputs), resp \in Answers :
          CallRoleRequired(r, h, resp)
    \/ \E r \in PermissionArgs, h \in Headers(Inputs), resp \in Answers :
          CallPermissionRequired(r, h, resp)

SpecGuard == InitUTC /\ [][NextGuard]_vars

\* Store outages: configurations that all consult the store and differ in
\* an option only, so that one token is verified under each of them.
OutageConfigs ==
    {[c EXCEPT !.access_token_expires = m] :
        c \in {k \in Configs : k.enable_blacklist /\ k.secret_key = "k1"},
        m \in {1, 2}}

NextOutage ==
    \/ \E c \in OutageConfigs : SetJwtConfig(c)
    \/ InstallManager
    \/ Tick
    \/ tokens = {} /\ CreateAccessToken([user_id |-> 7], None)
    \/ \E t \in Inputs, resp \in Responses, wresp \in WriteAnswers :
          CallRevokeToken(t, "revoked", resp, wresp)
    \/ \E t \in Inputs, resp \in Responses : CallVerifyToken(t, resp)
    \/ \E t \in Inputs, resp \in Responses : CallIsTokenBlacklisted(t, resp)

SpecOutage == InitUTC /\ [][NextOutage]_vars

\* Duplicate records: one token is revoked by single and by overlapping
\* calls and then looked up.
NextDuplicates ==
    \/ Configure
    \/ tokens = {} /\ CreateAccessToken([user_id |-> 7], None)
    \/ \E t \in Inputs, resp \in Answers, wresp \in WriteAnswers :
          CallRevokeToken(t, "revoked", resp, wresp)
    \/ \E t \in Inputs, resp1 \in Answers, resp2 \in Answers,
          wresp1 \in WriteAnswers, wresp2 \in WriteAnswers :
          CallRevokeTokenConcurrently(t, "revoked", resp1, resp2, wresp1, wresp2)
    \/ \E t \in Inputs, resp \in Responses : CallVerifyToken(t, resp)
    \/ \E t \in Inputs, resp \in Responses : CallIsTokenBlacklisted(t, resp)

SpecDuplicates == InitUTC /\ [][NextDuplicates]_vars

\* Sweeps: a token is revoked, once or again while a lookup goes
\* unanswered, and the collection is swept as time passes.
NextSweep ==
    \/ Configure
    \/ tokens = {} /\ CreateAccessToken([user_id |-> 7], None)
    \/ \E t \in Inputs, resp \in Answers, wresp \in WriteAnswers :
          CallRevokeToken(t, "revoked", resp, wresp)
    \/ \E wresp \in WriteResponses : CallCleanupExpired(wresp)

SpecSweep == Init /\ [][NextSweep]_vars

\* Every token operation, with and without an active configuration.
NextOperations ==
    \/ \E c \in {k \in Configs : k.secret_key = "k1"} \cup {None} : SetJwtConfig(c)
    \/ InstallManager
    \/ tokens = {} /\ CreateTokenPair([user_id |-> 7])
    \/ tokens = {} /\ CreateAccessToken([user_id |-> 7], None)
    \/ tokens = {} /\ CreateRefreshToken([user_id |-> 7])
    \/ \E t \in Inputs : CallVerifyToken(t, "ok")
    \/ \E t \in Inputs : CallVerifyAccessToken(t, "ok")
    \/ \E t \in Inputs : CallVerifyRefreshToken(t, "ok")
    \/ \E t \in Inputs : CallRefreshAccessToken(t, "ok")
    \/ \E t \in Inputs : CallIsTokenBlacklisted(t, "ok")
    \/ \E t \in Inputs : CallRevokeToken(t, "revoked", "ok", "ok")
    \/ \E a \in Inputs, r \in Inputs : CallRevokeTokenPair(a, r, "user_logout", "ok", "ok")

SpecOperations == InitUTC /\ [][NextOperations]_vars

\* Construction: configurations are constructed from good and bad values
\* and, when construction succeeded, activated.
NextConfig ==
    \/ \E k \in SecretKeys, a \in Algorithms, x \in Lifetimes, r \in Lifetimes :
          ConstructJWTConfig(k, a, x, r)
    \/ SetConstructedConfig

SpecConfig == InitUTC /\ [][NextConfig]_vars

\* Re-configuration: configurations replace one another while managers are
\* cached and tokens are issued, looked up, verified and revoked.
NextReconfigure ==
    \/ \E c \in Configs \cup {None} : SetJwtConfig(c)
    \/ InstallManager
    \/ InitializeBlacklistSystem
    \/ tokens = {} /\ CreateAccessToken([user_id |-> 7], None)
    \/ \E t \in Inputs : CallIsTokenBlacklisted(t, "ok")
    \/ \E t \in Inputs : CallVerifyToken(t, "ok")
    \/ \E t \in Inputs : CallRevokeToken(t, "revoked", "ok", "ok")

SpecReconfigure == InitUTC /\ [][NextReconfigure]_vars

\* Issuance: tokens are issued one after another from the same claims,
\* also within one clock unit, and refresh tokens are exchanged.
NextIssue ==
    \/ \E c \in {k \in Configs : k.secret_key = "k1"} : SetJwtConfig(c)
    \/ InstallManager
    \/ Tick
    \/ CreateAccessToken([user_id |-> 7], None)
    \/ CreateRefreshToken([user_id |-> 7])
    \/ CreateTokenPair([user_id |-> 7])
    \/ \E t \in Inputs : CallRefreshAccessToken(t, "ok")

SpecIssue == InitUTC /\ [][NextIssue]_vars

\* The store's clients: one token is issued, revoked, looked up, verified,
\* unrevoked and swept while requests to the store succeed and fail.
NextStore ==
    \/ \E c \in {k \in Configs : k.secret_key = "k1"} : SetJwtConfig(c)
    \/ InstallManager
    \/ Tick
    \/ tokens = {} /\ CreateAccessToken([user_id |-> 7], None)
    \/ \E t \in Inputs, resp \in Responses, wresp \in WriteResponses :
          CallRevokeToken(t, "revoked", resp, wresp)
    \/ \E t \in Inputs, resp \in Responses : CallVerifyToken(t, resp)
    \/ \E t \in Inputs, resp \in Responses : CallIsTokenBlacklisted(t, resp)
    \/ \E t \in Inputs, wresp \in WriteResponses : CallRemoveFromBlacklist(t, wresp)
    \/ \E wresp \in WriteResponses : CallCleanupExpired(wresp)

SpecStore == InitUTC /\ [][NextStore]_vars

\* The revocation switch: the operations that would reach the store are
\* called under configurations with the blacklist enabled and disabled.
NextSwitch ==
    \/ \E c \in {k \in Configs : k.secret_key = "k1"} : SetJwtConfig(c)
    \/ InstallManager
    \/ Tick
    \/ tokens = {} /\ CreateAccessToken([user_id |-> 7], None)
    \/ \E t \in Inputs, resp \in Answers, wresp \in WriteAnswers :
          CallRevokeToken(t, "revoked", resp, wresp)
    \/ \E t \in Inputs, resp \in Answers : CallVerifyToken(t, resp)
    \/ \E t \in Inputs, resp \in Answers : CallIsTokenBlacklisted(t, resp)
    \/ \E t \in Inputs, wresp \in WriteAnswers : CallRemoveFromBlacklist(t, wresp)
    \/ \E wresp \in WriteAnswers : CallCleanupExpired(wresp)
    \/ \E resp \in Answers : CallGetBlacklistStatistics(resp)
    \/ \E resp \in Answers : ReturnBlacklistStatistics(resp)

SpecSwitch == InitUTC /\ [][NextSwitch]_vars

\* Pair revocation: the tokens of a pair, and strings that are no tokens,
\* are revoked singly and as pairs while the store answers or refuses.
NextPair ==
    \/ \E c \in {k \in Configs : k.secret_key = "k1"} : SetJwtConfig(c)
    \/ InstallManager
    \/ tokens = {} /\ CreateTokenPair([user_id |-> 7])
    \/ \E t \in Inputs : CallRevokeToken(t, "revoked", "ok", "ok")
    \/ \E a \in Inputs, r \in Inputs, resp \in Answers, wresp \in WriteAnswers :
          CallRevokeTokenPair(a, r, "user_logout", resp, wresp)

SpecPair == InitUTC /\ [][NextPair]_vars

\* Unrevocation: the tokens of a pair are revoked, also twice while a
\* lookup goes unanswered, unrevoked, looked up and verified.  The store's
\* document ids grow with every insert; revocations stop at a highest id.
NextUnrevoke ==
    \/ \E c \in {k \in Configs : k.secret_key = "k1" /\ k.enable_blacklist} :
          SetJwtConfig(c)
    \/ InstallManager
    \/ Tick
    \/ tokens = {} /\ CreateTokenPair([user_id |-> 7])
    \/ \E t \in Inputs, resp \in Answers :
          NextId <= MaxRecords + 1 /\ CallRevokeToken(t, "revoked", resp, "ok")
    \/ \E t \in Inputs, wresp \in WriteAnswers : CallRemoveFromBlacklist(t, wresp)
    \/ \E t \in Inputs : CallIsTokenBlacklisted(t, "ok")
    \/ \E t \in Inputs : CallVerifyToken(t, "ok")

SpecUnrevoke == InitUTC /\ [][NextUnrevoke]_vars

\* Statistics: the tokens of a pair are revoked and swept as time passes,
\* also between the two count requests of a statistics call.
NextStats ==
    \/ \E c \in {k \in Configs : k.secret_key = "k1" /\ k.enable_blacklist} :
          SetJwtConfig(c)
    \/ InstallManager
    \/ Tick
    \/ tokens = {} /\ CreateTokenPair([user_id |-> 7])
    \/ \E t \in Inputs : CallRevokeToken(t, "revoked", "ok", "ok")
    \/ CallCleanupExpired("ok")
    \/ \E resp \in Responses : CallGetBlacklistStatistics(resp)
    \/ \E resp \in Responses : ReturnBlacklistStatistics(resp)

SpecStats == Init /\ [][NextStats]_vars

\* Sweeps and verification: one token is revoked, swept and verified as
\* time passes, on hosts in UTC and west of it; the store answers every
\* lookup.
NextSweepVerify ==
    \/ \E c \in {k \in Configs : k.secret_key = "k1" /\ k.enable_blacklist} :
          SetJwtConfig(c)
    \/ InstallManager
    \/ Tick
    \/ tokens = {} /\ CreateAccessToken([user_id |-> 7], None)
    \/ \E t \in Inputs, wresp \in WriteAnswers : CallRevokeToken(t, "revoked", "ok", wresp)
    \/ \E t \in Inputs : CallVerifyToken(t, "ok")
    \/ \E wresp \in WriteAnswers : CallCleanupExpired(wresp)

SpecSweepVerify == Init /\ [][NextSweepVerify]_vars

\* Bearer credentials: access and refresh tokens are issued and presented
\* to the four decorators.
NextBearer ==
    \/ \E c \in {k \in Configs : k.secret_key = "k1"} : SetJwtConfig(c)
    \/ InstallManager
    \/ \E d \in ClaimSets : tokens = {} /\ CreateAccessToken(d, None)
    \/ \E d \in ClaimSets : tokens = {} /\ CreateRefreshToken(d)
    \/ \E h \in Headers(Inputs) : CallTokenRequired(h, "ok")
    \/ \E h \in Headers(Inputs) : CallAdminRequired(h, "ok")
    \/ \E r \in RoleArgs, h \in Headers(Inputs) : CallRoleRequired(r, h, "ok")
    \/ \E r \in PermissionArgs, h \in Headers(Inputs) : CallPermissionRequired(r, h, "ok")

SpecBearer == InitUTC /\ [][NextBearer]_vars

\* Threads: a configuration is replaced while another thread verifies,
\* looks up or revokes a token; managers are cached in between.
NextThreads ==
    \/ \E c \in OutageConfigs : BeginSetJwtConfig(c)
    \/ EndSetJwtConfig
    \/ InstallManager
    \/ tokens = {} /\ CreateAccessToken([user_id |-> 7], None)
    \/ \E op \in ThreadedOps, t \in Inputs : BeginCall(op, t)
    \/ \E resp \in Answers, wresp \in WriteAnswers : EndCall(resp, wresp)

SpecThreads == InitUTC /\ [][NextThreads]_vars

\* Reserved claims: tokens are issued from claims with and without reserved
\* keys, and refresh tokens are exchanged.
NextReserved ==
    \/ \E c \in {k \in Configs : k.secret_key = "k1"} : SetJwtConfig(c)
    \/ InstallManager
    \/ Tick
    \/ \E d \in ReservedClaimSets : tokens = {} /\ CreateAccessToken(d, None)
    \/ \E d \in ReservedClaimSets : tokens = {} /\ CreateRefreshToken(d)
    \/ \E t \in Inputs : CallRefreshAccessToken(t, "ok")

SpecReserved == InitUTC /\ [][NextReserved]_vars

\* Records: tokens signed with the configured key and with another one,
\* and a string that is no token, are written to the blacklist before and
\* after they expire, and the collection is swept.
NextRecords ==
    \/ \E c \in {k \in Configs : k.secret_key = "k1" /\ k.enable_blacklist} :
          SetJwtConfig(c)
    \/ InstallManager
    \/ Tick
    \/ tokens = {} /\ CreateAccessToken([user_id |-> 7], None)
    \/ tokens = {} /\ ExternalEncode([user_id |-> 7], "k2", Str("other"))
    \/ \E t \in Inputs, reason \in {"revoked", "logout"}, wresp \in WriteAnswers :
          CallAddToBlacklist(t, reason, wresp)
    \/ CallCleanupExpired("ok")

SpecRecords == Init /\ [][NextRecords]_vars

\* Verification step by step: a token is issued and revoked, and while a
\* verify_token call runs the store answers, fails, or stays silent.
NextVerifying ==
    \/ \E c \in {k \in Configs : k.secret_key = "k1"} \cup {None} :
          running.verifying = None /\ SetJwtConfig(c)
    \/ running.verifying = None /\ InstallManager
    \/ running.verifying = None /\ Tick
    \/ running.verifying = None /\ tokens = {}
          /\ CreateAccessToken([user_id |-> 7], None)
    \/ \E t \in Inputs :
          running.verifying = None /\ CallRevokeToken(t, "revoked", "ok", "ok")
    \/ \E t \in Inputs : StartVerifyToken(t)
    \/ DecodeStep
    \/ \E resp \in Responses : StoreAnswers(resp)
    \/ Wait
    \/ TimeoutExpires

\* The thread of the call keeps running and time keeps passing; nothing
\* obliges the store to answer.
SpecVerifying ==
    /\ InitUTC
    /\ [][NextVerifying]_vars
    /\ WF_vars(DecodeStep)
    /\ WF_vars(Wait)
    /\ WF_vars(TimeoutExpires)

----------------------------------------------------------------------------
(* Claims *)

\* The token's signature and expiry are valid under the active configuration.
StillValid(token) ==
    jwt_config # None /\ Decode(token, jwt_config.secret_key).ok

\* The answer the store gave to the call's find request ("ok" when the
\* call sent none, where the answer plays no part).
FindAnswer(reqs) == IF reqs = <<>> THEN "ok" ELSE reqs[1].resp

TypeOf(token) ==
    IF "type" \in DOMAIN token.payload THEN Str(token.payload.type) ELSE None

\* C1: once revoke_token(t) has returned True and no remove_from_blacklist(t)
\* was called since, every verify_token(t) of a token whose signature and
\* expiry are still valid fails with 'Token has been revoked', and every
\* is_token_blacklisted(t) returns True.
C1_RevocationEffect ==
    /\ (/\ last.op = "verify_token"
        /\ last.token \in revoked
        /\ StillValid(last.token))
       => (~last.ok /\ last.error = "Token has been revoked")
    /\ (/\ last.op = "is_token_blacklisted"
        /\ last.token \in revoked
        /\ StillValid(last.token))
       => (last.ok /\ last.result)

\* C2: verify_token applied to the token create_access_token(C) has just
\* returned (default lifetime, any active configuration) returns a payload
\* that contains every key/value pair of C and has type = access.
C2_AccessRoundTrip ==
    [][(/\ last.op = "create_access_token"
        /\ last.ok
        /\ last.expires_delta = None
        /\ last'.op = "verify_token"
        /\ last'.token = last.result)
       => (/\ last'.ok
           /\ \A k \in DOMAIN last.data :
                 k \in DOMAIN last'.payload /\ last'.payload[k] = last.data[k]
           /\ last'.payload.type = "access")]_vars

\* C3: a valid, unrevoked refresh token passes verify_refresh_token and
\* fails verify_access_token with 'expected access token'; a valid,
\* unrevoked access token fails verify_refresh_token with 'expected refresh
\* token'; a valid, unrevoked token with no type claim or another type
\* fails both typed verifications and passes verify_token.
C3_TypedVerification ==
    LET t == last.token
        fresh == StillValid(t) /\ Documents(HashToken(t)) = {}
    IN  /\ (last.op = "verify_refresh_token" /\ fresh /\ TypeOf(t) = Str("refresh"))
           => last.ok
        /\ (last.op = "verify_access_token" /\ fresh /\ TypeOf(t) = Str("refresh"))
           => (~last.ok /\ last.error = "Invalid token type: expected access token")
        /\ (last.op = "verify_refresh_token" /\ fresh /\ TypeOf(t) = Str("access"))
           => (~last.ok /\ last.error = "Invalid token type: expected refresh token")
        /\ (/\ last.op \in {"verify_access_token", "verify_refresh_token"}
            /\ fresh
            /\ TypeOf(t) \notin {Str("access"), Str("refresh")})
           => ~last.ok
        /\ (/\ last.op = "verify_token"
            /\ fresh
            /\ TypeOf(t) \notin {Str("access"), Str("refresh")})
           => last.ok

\* The four guards, the credential of a call's header when it is a bearer
\* credential, and the verification of that credential against the answer
\* the store gave during the call.
GuardOps ==
    {"token_required", "admin_required", "role_required", "permission_required"}
BearerPresented ==
    last.header # None /\ last.header.scheme = "Bearer" /\ last.header.cred # Str("")
Verified == VerifyToken(last.header.cred, FindAnswer(last.reqs))
RolesOf(claims) == IF "roles" \in DOMAIN claims THEN claims.roles ELSE {}
PermissionsOf(claims) ==
    IF "permissions" \in DOMAIN claims THEN claims.permissions ELSE {}
RequiredSet == IF "str" \in DOMAIN last.required THEN {last.required.str}
               ELSE last.required.list
GuardPredicate(claims) ==
    CASE last.op = "token_required" -> TRUE
      [] last.op = "admin_required" -> "admin" \in RolesOf(claims)
      [] last.op = "role_required" -> RequiredSet \cap RolesOf(claims) # {}
      [] last.op = "permission_required" -> RequiredSet \subseteq PermissionsOf(claims)

\* C4: a guard invokes the wrapped operation only if a bearer token was
\* extracted from the Authorization header, verify_token returned claims
\* for it and the guard's role/permission predicate held on those claims,
\* and it passes exactly those claims as current_user; in every other case
\* the wrapped operation is not invoked.
C4_GuardSafety ==
    last.op \in GuardOps =>
        /\ last.called =>
              /\ BearerPresented
              /\ Verified.ok
              /\ GuardPredicate(Verified.payload)
              /\ last.current_user = Verified.payload
        /\ (~BearerPresented \/ ~Verified.ok \/ ~GuardPredicate(Verified.payload))
              => ~last.called

C4_Witness ==
    /\ last.op = "role_required"
    /\ last.called
    /\ last.current_user.roles = {"admin", "user"}

\* C5: a guard call without a bearer credential ends as 401; one whose
\* token fails verification ends as 401 carrying the verifier's failure
\* reason; one whose token verifies but fails the role/permission predicate
\* ends as 403; every guard call ends as 401, 403 or the wrapped operation.
C5_GuardOutcomes ==
    last.op \in GuardOps =>
        /\ last.status \in {"401", "403", "f"}
        /\ last.status = "f" <=> last.called
        /\ ~BearerPresented
              => (last.status = "401" /\ last.error = "Token is missing")
        /\ (BearerPresented /\ ~Verified.ok)
              => (last.status = "401" /\ last.error = Verified.error)
        /\ (BearerPresented /\ Verified.ok /\ ~GuardPredicate(Verified.payload))
              => last.status = "403"

C5_Witness ==
    /\ last.op = "admin_required"
    /\ BearerPresented
    /\ last.status = "401"
    /\ last.error = "Token has been revoked"

\* C6: role_required(R) admits a verified token iff the token's roles have
\* an element in common with R (a single string is the one-element set),
\* admin_required is the case R = {admin}, and a verified token that is
\* not admitted is rejected with 403.
C6_RoleCheck ==
    (/\ last.op \in {"role_required", "admin_required"}
     /\ BearerPresented
     /\ Verified.ok)
    => LET R == IF last.op = "admin_required" THEN {"admin"} ELSE RequiredSet
           roles == RolesOf(Verified.payload)
       IN  /\ last.called <=> (\E r \in R : r \in roles)
           /\ ~last.called => last.status = "403"

C6_Witness ==
    /\ last.op = "admin_required"
    /\ BearerPresented
    /\ Verified.ok
    /\ RolesOf(Verified.payload) = {"user"}
    /\ last.status = "403"

\* C7: permission_required(P) admits a verified token iff every permission
\* of P is among the token's permissions, and a verified token that is not
\* admitted is rejected with 403.
C7_PermissionCheck ==
    (/\ last.op = "permission_required"
     /\ BearerPresented
     /\ Verified.ok)
    => LET permissions == PermissionsOf(Verified.payload)
       IN  /\ last.called <=> (\A q \in RequiredSet : q \in permissions)
           /\ ~last.called => last.status = "403"

C7_Witness ==
    /\ last.op = "permission_required"
    /\ BearerPresented
    /\ Verified.ok
    /\ RequiredSet = {"read", "write"}
    /\ PermissionsOf(Verified.payload) = {"read"}
    /\ last.status = "403"

\* C8: a verified token with no roles field is rejected by admin_required
\* and by role_required(R) for non-empty R, and a verified token with no
\* permissions field is rejected by permission_required(P) for non-empty P.
C8_FailClosed ==
    (/\ last.op \in GuardOps
     /\ BearerPresented
     /\ Verified.ok)
    => /\ (/\ "roles" \notin DOMAIN Verified.payload
           /\ \/ last.op = "admin_required"
              \/ last.op = "role_required" /\ RequiredSet # {})
          => (~last.called /\ last.status = "403")
       /\ (/\ "permissions" \notin DOMAIN Verified.payload
           /\ last.op = "permission_required"
           /\ RequiredSet # {})
          => (~last.called /\ last.status = "403")

C8_Witness ==
    /\ last.op = "permission_required"
    /\ BearerPresented
    /\ Verified.ok
    /\ "permissions" \notin DOMAIN Verified.payload
    /\ RequiredSet = {"read"}
    /\ ~last.called

\* The claims of a payload other than exp, type, iat and jti.
Business(payload) ==
    [k \in DOMAIN payload \ {"exp", "type", "iat", "jti"} |-> payload[k]]

\* C9: refresh_access_token applied to a refresh token of an issued pair
\* that is validly signed, unexpired and not revoked returns a new access
\* token that verify_access_token accepts, with the business claims
\* unchanged, type = access, exp = now + access lifetime, iat = now, a jti
\* no issued token has, and different from every token issued before.
C9_RefreshProtocol ==
    [][(/\ last'.op = "refresh_access_token"
        /\ StillValid(last'.token)
        /\ TypeOf(last'.token) = Str("refresh")
        /\ last'.token \notin revoked
        /\ Documents(HashToken(last'.token)) = {})
       => LET new == last'.result
          IN  /\ new # None
              /\ new \notin tokens
              /\ new.payload.type = "access"
              /\ new.payload.exp = now + jwt_config.access_token_expires
              /\ new.payload.iat = now
              /\ \A t \in tokens : t.payload.jti # new.payload.jti
              /\ Business(new.payload) = Business(last'.token.payload)
              /\ VerifyAccessToken(new, "ok").ok]_vars

\* C10: refresh_access_token returns None and issues no token whenever its
\* argument is malformed, signed with another key, expired, not of type
\* refresh, reported by the blacklist lookup, or otherwise fails
\* verify_refresh_token.
C10_RefreshRejects ==
    [][(/\ last'.op = "refresh_access_token"
        /\ LET t == last'.token
           IN  \/ jwt_config = None
               \/ t = Malformed
               \/ t.key # jwt_config.secret_key
               \/ t.payload.exp <= now
               \/ TypeOf(t) # Str("refresh")
               \/ ~VerifyRefreshToken(t, FindAnswer(last'.reqs)).ok)
       => (last'.result = None /\ tokens' = tokens)]_vars

C10_Witness ==
    /\ last.op = "refresh_access_token"
    /\ last.token # Malformed
    /\ StillValid(last.token)
    /\ TypeOf(last.token) = Str("access")
    /\ jwt_config.enable_blacklist
    /\ blacklist_manager # None
    /\ last.reqs # <<>>
    /\ last.result = None

\* C11: what verify_token does with a decoded token when the store does
\* not answer the lookup is selected by the configuration: among the
\* configurations that consult the store there is a fail-closed one, under
\* which verify_token never returns the claims of a token whose lookup
\* went unanswered.
C11_OutageSwitch ==
    \E c \in OutageConfigs : c \notin unchecked

\* C12: a lookup that the store does not answer never makes
\* is_blacklisted raise, and what it returns then is a failure signal, not
\* the answer False that stands for 'not revoked'.
C12_LookupSignal ==
    (/\ last.op = "is_token_blacklisted"
     /\ last.reqs # <<>>
     /\ FindAnswer(last.reqs) # "ok")
    => (last.ok /\ last.result # FALSE)

\* C13: is_blacklisted(t) is true iff the store holds at least one record
\* with t's fingerprint, however many there are: two overlapping
\* revocations that have left two records have both returned True, and
\* is_token_blacklisted(t) is True and verify_token(t) fails as revoked,
\* as with one record.
C13_ExistenceNotCount ==
    LET records == Documents(HashToken(last.token))
    IN  /\ (last.op = "is_token_blacklisted" /\ last.reqs # <<>>)
           => (last.ok /\ (last.result <=> records # {}))
        /\ (last.op = "verify_token" /\ last.reqs # <<>>)
           => (last.ok <=> records = {})
        /\ (last.op = "verify_token" /\ ~last.ok /\ last.reqs # <<>>)
           => last.error = "Token has been revoked"
        /\ (last.op = "revoke_token_concurrently" /\ last.inserted = 2)
           => (last.results[1] /\ last.results[2])

ExpiryInstant(d) == d.expires_at.iso - tz
Due == {d \in store : d.expires_at # None /\ ExpiryInstant(d) <= now}

\* C15: a sweep that the store carries out deletes exactly the records
\* whose expires_at lies strictly before the current instant and returns
\* their number; records expiring at or after now and records with a null
\* expires_at stay in the store.
C15_SweepExact ==
    [][(/\ last'.op = "cleanup_expired_blacklist_tokens"
        /\ last'.ok
        /\ last'.reqs # <<>>
        /\ last'.reqs[1].resp = "ok")
       => (store' = store \ Due /\ last'.result = Cardinality(Due))]_vars

SweepCalled(call) ==
    call.op = "cleanup_expired_blacklist_tokens" /\ call.ok /\ call.reqs # <<>>

TokenOperations ==
    {"create_access_token", "create_refresh_token", "create_token_pair",
     "verify_token", "verify_access_token", "refresh_access_token",
     "revoke_token", "revoke_token_pair", "is_token_blacklisted"}

\* C17: every token operation called while no configuration is active
\* fails with the configuration-not-initialized RuntimeError and returns
\* no value.
C17_NotInitializedFatal ==
    (jwt_config = None /\ last.op \in TokenOperations)
    => (/\ "error" \in DOMAIN last
        /\ last.error = "RuntimeError"
        /\ "result" \notin DOMAIN last)

C19_ClientFromActiveConfig ==
    blacklist_manager # None =>
        /\ jwt_config # None
        /\ blacklist_manager.jwt_config = jwt_config
        /\ blacklist_manager.mongodb_api_url = jwt_config.mongodb_api_url

\* A token issued under an earlier configuration is looked up through a
\* manager cached under the configuration that replaced it.
C19_Witness ==
    /\ blacklist_manager # None
    /\ jwt_config # None
    /\ \E t \in tokens : t.key # jwt_config.secret_key
    /\ last.op = "is_token_blacklisted"
    /\ last.reqs # <<>>

\* C20: the create_* operations send the store no request; verify_token,
\* verify_access_token, verify_refresh_token, is_token_blacklisted and
\* refresh_access_token send it lookups only; the store is the same after
\* each of them, and a refresh token that was just exchanged is exchanged
\* again by the next call.
C20_IssuanceAndVerificationReadOnly ==
    [][/\ last'.op \in {"create_access_token", "create_refresh_token",
                        "create_token_pair"}
          => (store' = store /\ "reqs" \notin DOMAIN last')
       /\ last'.op \in {"verify_token", "verify_access_token", "verify_refresh_token",
                        "is_token_blacklisted", "refresh_access_token"}
          => /\ store' = store
             /\ \A i \in DOMAIN last'.reqs : last'.reqs[i].verb = "find"
       /\ (/\ last.op = "refresh_access_token"
           /\ last.result # None
           /\ last'.op = "refresh_access_token"
           /\ last'.token = last.token)
          => last'.result # None
      ]_vars

\* The refresh token drawn first has been exchanged twice, the second time
\* after a lookup in the store.
C20_Witness ==
    /\ last.op = "refresh_access_token"
    /\ last.token # Malformed
    /\ last.token.payload.jti = 1
    /\ last.result # None
    /\ last.result.payload.jti = 3
    /\ last.reqs # <<>>

\* C21: every token returned by create_access_token, whatever the
\* expires_delta argument, and by create_refresh_token has exp > iat.
C21_ExpAfterIat ==
    (last.op \in {"create_access_token", "create_refresh_token"} /\ last.ok)
    => last.result.payload.exp > last.result.payload.iat

\* C22: the tokens issued by create_access_token, create_refresh_token,
\* create_token_pair and refresh_access_token are as many different token
\* strings as tokens were issued, and no two of them carry the same jti;
\* the two tokens of a pair differ.
C22_JtiUnique ==
    LET issued == {t \in tokens : "jti" \in DOMAIN t.payload}
    IN  /\ Cardinality(issued) = uuid
        /\ \A t1 \in issued, t2 \in issued :
              t1 # t2 => t1.payload.jti # t2.payload.jti
        /\ (last.op = "create_token_pair" /\ last.ok) =>
              /\ last.access_token # last.refresh_token
              /\ last.access_token.payload.jti # last.refresh_token.payload.jti

\* Two tokens issued from the same claims at the same instant, the later
\* one by exchanging a refresh token.
C22_Witness ==
    /\ last.op = "refresh_access_token"
    /\ last.result # None
    /\ \E t \in tokens :
          /\ t # last.result
          /\ Pop(t.payload, {"jti"}) = Pop(last.result.payload, {"jti"})

\* C23: in every request that add_to_blacklist, is_blacklisted and
\* remove_from_blacklist send for a token, the token is present as its
\* digest only: a find or delete request filters on the digest of that
\* token, and an inserted document carries the digest, the reason, the
\* revocation instant and the expiry instant, and nothing else.
C23_OnlyFingerprintSent ==
    (/\ last.op \in {"verify_token", "is_token_blacklisted", "revoke_token",
                    "remove_from_blacklist"}
     /\ "reqs" \in DOMAIN last)
    => \A i \in DOMAIN last.reqs :
          LET r == last.reqs[i]
          IN  /\ r.verb \in {"find", "delete"} =>
                    /\ DOMAIN r.filter = {"sha256"}
                    /\ r.filter.sha256 = last.token
              /\ r.verb = "insert" =>
                    /\ DOMAIN r.filter = {"token_hash", "reason", "revoked_at",
                                          "expires_at"}
                    /\ DOMAIN r.filter.token_hash = {"sha256"}
                    /\ r.filter.token_hash.sha256 = last.token
                    /\ r.filter.reason = "revoked"
                    /\ r.filter.revoked_at = now
                    /\ \/ r.filter.expires_at = None
                       \/ DOMAIN r.filter.expires_at = {"iso"}

\* A revocation that sent its lookup and then its insert.
C23_Witness ==
    /\ last.op = "revoke_token"
    /\ Len(last.reqs) = 2
    /\ last.reqs[2].verb = "insert"
    /\ last.result

\* C24: add_to_blacklist, remove_from_blacklist and cleanup_expired_tokens
\* send one request each and raise nothing; when that request fails with an
\* exception, with a timeout or with a status other than 200, the first
\* two return False and the sweep returns 0.
C24_FailuresReportedOnce ==
    LET sent(verb) == {i \in DOMAIN last.reqs : last.reqs[i].verb = verb}
        failed(verb) == \E i \in sent(verb) : last.reqs[i].resp # "ok"
    IN  /\ (last.op = "revoke_token" /\ sent("insert") # {}) =>
              /\ Cardinality(sent("insert")) = 1
              /\ failed("insert") => last.result = FALSE
        /\ (last.op = "remove_from_blacklist" /\ "reqs" \in DOMAIN last
               /\ last.reqs # <<>>) =>
              /\ Len(last.reqs) = 1
              /\ last.ok
              /\ failed("delete") => last.result = FALSE
        /\ (last.op = "cleanup_expired_blacklist_tokens" /\ "reqs" \in DOMAIN last
               /\ last.reqs # <<>>) =>
              /\ Len(last.reqs) = 1
              /\ last.ok
              /\ failed("delete") => last.result = 0

\* An unrevocation whose request raised: False, and the record is still
\* there.
C24_Witness ==
    /\ last.op = "remove_from_blacklist"
    /\ "reqs" \in DOMAIN last
    /\ last.reqs # <<>>
    /\ last.reqs[1].resp = "exception"
    /\ last.result = FALSE
    /\ Documents(HashToken(last.token)) # {}

\* C25: under a configuration with enable_blacklist off no request is sent
\* to the store: verify_token returns the claims of every token that
\* decodes, revoke_token, is_token_blacklisted and remove_from_blacklist
\* return False, cleanup_expired_blacklist_tokens returns 0 and
\* get_blacklist_statistics returns zeros.
C25_SwitchedOff ==
    (jwt_config # None /\ ~jwt_config.enable_blacklist) =>
        /\ last.op \in {"verify_token", "revoke_token", "is_token_blacklisted",
                        "remove_from_blacklist", "cleanup_expired_blacklist_tokens"}
           => last.reqs = <<>>
        /\ last.op = "verify_token" =>
              /\ last.ok <=> Decode(last.token, jwt_config.secret_key).ok
              /\ last.ok => last.payload = last.token.payload
        /\ last.op \in {"revoke_token", "remove_from_blacklist"} => last.result = FALSE
        /\ last.op = "is_token_blacklisted" => (last.ok /\ last.result = FALSE)
        /\ last.op = "cleanup_expired_blacklist_tokens" => last.result = 0
        /\ (last.op = "get_blacklist_statistics" /\ ~last.config.enable_blacklist) =>
              /\ last.reqs = <<>>
              /\ last.result.total_tokens = 0
              /\ last.result.expired_tokens = 0
              /\ last.result.active_tokens = 0

\* A token revoked while the blacklist was enabled verifies, with a manager
\* in the cache, once the active configuration has the blacklist disabled.
C25_Witness ==
    /\ jwt_config # None
    /\ ~jwt_config.enable_blacklist
    /\ blacklist_manager # None
    /\ last.op = "verify_token"
    /\ last.ok
    /\ Documents(HashToken(last.token)) # {}

\* C26: revoke_token(t) called when verify_token(t) fails, because t is
\* malformed, signed with another key, expired, or found revoked by the
\* lookup, returns False, sends no insert request and leaves the store as
\* it was.
C26_RevokeNeedsValidToken ==
    [][LET t == last'.token
           found == /\ jwt_config.enable_blacklist
                    /\ blacklist_manager # None
                    /\ Documents(HashToken(t)) # {}
                    /\ last'.reqs # <<>>
                    /\ last'.reqs[1].resp = "ok"
       IN  (/\ last'.op = "revoke_token"
            /\ jwt_config # None
            /\ \/ t = Malformed
               \/ t.key # jwt_config.secret_key
               \/ t.payload.exp <= now
               \/ found)
           => /\ last'.result = FALSE
              /\ store' = store
              /\ \A i \in DOMAIN last'.reqs : last'.reqs[i].verb # "insert"
      ]_vars

\* A second revocation of a revoked token that is otherwise valid: refused
\* after the lookup, and the one record stays the only one.
C26_Witness ==
    /\ last.op = "revoke_token"
    /\ last.result = FALSE
    /\ last.token \in revoked
    /\ StillValid(last.token)
    /\ Len(last.reqs) = 1
    /\ last.reqs[1].resp = "ok"
    /\ Cardinality(Documents(HashToken(last.token))) = 1

\* C27: revoke_token_pair(a, r) returns True iff revoke_token(a) and
\* revoke_token(r) both return True; r is revoked also when the revocation
\* of a failed, and the record of a stays when the revocation of r failed.
C27_PairNotAtomic ==
    [][last'.op = "revoke_token_pair" =>
          LET a == last'.access_token
              r == last'.refresh_token
              ra == RevokeToken(a, last'.reason \o "_access",
                                last'.answers[1], last'.answers[2]).result
              rr == RevokeToken(r, last'.reason \o "_refresh",
                                last'.answers[1], last'.answers[2]).result
              after(t) == {d \in store' : d.token_hash = HashToken(t)}
          IN  /\ last'.result = (ra /\ rr)
              /\ rr => after(r) # Documents(HashToken(r))
              /\ ra => after(a) # Documents(HashToken(a))
      ]_vars

\* The access token was refused and the refresh token revoked all the same.
C27_Witness ==
    /\ last.op = "revoke_token_pair"
    /\ last.results = <<FALSE, TRUE>>
    /\ last.result = FALSE
    /\ Documents(HashToken(last.refresh_token)) # {}
    /\ Documents(HashToken(last.access_token)) = {}

Lapsed(st, instant) == {d \in st : d.expires_at # None /\ d.expires_at.iso <= instant}

C30_VerificationStateMachine ==
    /\ (last.op = "verify_token" /\ jwt_config # None) =>
          LET d == Decode(last.token, jwt_config.secret_key)
          IN  /\ Len(last.reqs) <= 1
              /\ \A i \in DOMAIN last.reqs : last.reqs[i].verb = "find"
              /\ ~d.ok =>
                    /\ last.reqs = <<>>
                    /\ ~last.ok
                    /\ last.error = (IF d.error = "ExpiredSignatureError"
                                     THEN "Token has expired" ELSE "Invalid token")
                    /\ "payload" \notin DOMAIN last
              /\ d.ok =>
                    \/ last.ok /\ last.payload = d.payload
                    \/ ~last.ok /\ last.error = "Token has been revoked"
    /\ (/\ last.op = "verify_access_token"
        /\ last.token \in revoked
        /\ StillValid(last.token)
        /\ TypeOf(last.token) # Str("access"))
       => (~last.ok /\ last.error = "Token has been revoked")

\* C31: a revoked token never becomes verifiable again through expiry
\* sweeping: in every state reached by revoke, verify and sweep operations,
\* verify_token rejects a token that was successfully revoked and not
\* unrevoked.
C31_SweepKeepsRevoked ==
    (/\ last.op = "verify_token"
     /\ last.token \in revoked)
    => ~last.ok

\* C32: a refresh token presented as the bearer credential to
\* token_required, admin_required, role_required or permission_required is
\* rejected and the wrapped operation does not run.
C32_GuardRejectsRefresh ==
    (/\ last.op \in GuardOps
     /\ BearerPresented
     /\ TypeOf(last.header.cred) = Str("refresh"))
    => ~last.called

\* C33: when set_jwt_config runs concurrently with verify_token,
\* revoke_token or is_token_blacklisted, no operation uses one
\* configuration together with a Revocation Client built from another:
\* the client an operation sends its request through was built from the
\* configuration the operation read.
C33_NoMixedState ==
    (/\ last.op \in ThreadedOps
     /\ "overlapped" \in DOMAIN last
     /\ last.client # None)
    => last.client.jwt_config = last.config

\* The call's insert request was carried out by the store and its answer
\* did not arrive.
LostAfterWrite(reqs) ==
    \E i \in DOMAIN reqs : reqs[i].verb = "insert" /\ reqs[i].resp = "timeout_after_write"

\* C34 as stated: whenever revoke_token returns False, also after a timeout
\* or a lost answer, the store holds no new record.
C34_FailedRevocationNoRecord ==
    [][(last'.op = "revoke_token" /\ ~last'.result) => store' = store]_vars

\* C34, amended: a revoke_token that returns True has added a record with
\* the token's fingerprint, and one that returns False after the store
\* refused the insert, the request failed to reach the store, or no insert
\* was sent, has left the store unchanged.
C34_ReturnTellsWrite ==
    [][last'.op = "revoke_token"
       => /\ last'.result
             => \E d \in store' \ store : d.token_hash = HashToken(last'.token)
          /\ (~last'.result /\ ~LostAfterWrite(last'.reqs)) => store' = store
      ]_vars

\* A revocation whose insert request raised has returned False and the
\* store is empty.
C34_Witness ==
    /\ last.op = "revoke_token"
    /\ ~last.result
    /\ Len(last.reqs) = 2
    /\ last.reqs[2].verb = "insert"
    /\ last.reqs[2].resp = "exception"
    /\ store = {}

\* C35: every verify_token call reaches a terminal state, claims returned
\* or a failure raised, even when the revocation store never answers: the
\* lookup ends at the timeout at the latest and is sent once.
C35_VerificationTerminates ==
    /\ (running.verifying # None)
          ~> (running.verifying = None /\ last.op = "verify_token")
    /\ [](last.op = "verify_token"
            => (Len(last.reqs) <= 1
                /\ ("waited" \in DOMAIN last => last.waited <= Timeout)))

\* A call has ended at the timeout, the store having stayed silent.
C35_Witness ==
    /\ last.op = "verify_token"
    /\ "waited" \in DOMAIN last
    /\ last.waited = Timeout
    /\ last.answer = "exception"
    /\ running.verifying = None

\* C36: every token from create_access_token has type = access and every
\* token from create_refresh_token has type = refresh, with exp, iat and
\* jti set by the issuer, even when the caller's claims hold type, exp, iat
\* or jti keys, also in the token refresh_access_token issues from the
\* claims of a refresh token; the other claims are the caller's, and the
\* caller's mapping is as it was.
C36_IssuerSetsReserved ==
    /\ (last.op \in {"create_access_token", "create_refresh_token"} /\ last.ok)
       => LET p == last.result.payload
          IN  /\ p.type = IF last.op = "create_access_token" THEN "access" ELSE "refresh"
              /\ p.exp = now + IF last.op = "create_access_token"
                                THEN jwt_config.access_token_expires
                                ELSE jwt_config.refresh_token_expires
              /\ p.iat = now
              /\ p.jti = uuid
              /\ \A k \in DOMAIN last.data \ ReservedKeys : p[k] = last.data[k]
              /\ DOMAIN p = DOMAIN last.data \cup ReservedKeys
              /\ last.data_after = last.data
    /\ (last.op = "refresh_access_token" /\ last.result # None)
       => LET p == last.result.payload
          IN  /\ p.type = "access"
              /\ p.exp = now + jwt_config.access_token_expires
              /\ p.iat = now
              /\ p.jti = uuid
              /\ p.jti # last.token.payload.jti

\* An access token was issued from claims that said type = refresh and
\* carried an exp, iat and jti of their own.
C36_Witness ==
    /\ last.op = "create_access_token"
    /\ last.ok
    /\ DOMAIN last.data = {"user_id"} \cup ReservedKeys
    /\ last.data.type = "refresh"
    /\ last.result.payload.type = "access"
    /\ last.result.payload.jti # last.data.jti

\* C37: the record written by add_to_blacklist(t, reason) consists of t's
\* fingerprint, the reason, the revocation instant, and expires_at equal to
\* t's exp when t decodes with the configured key, null when it does not
\* (malformed, badly signed, expired); cleanup_expired_tokens never removes
\* a record with a null expires_at.
C37_RecordContents ==
    [][/\ (last'.op = "add_to_blacklist" /\ Applied(last'.reqs[1].resp))
          => \E d \in store' \ store :
                /\ store' = store \cup {d}
                /\ DOMAIN d = {"id", "token_hash", "reason", "revoked_at", "expires_at"}
                /\ d.token_hash = HashToken(last'.token)
                /\ d.reason = last'.reason
                /\ d.revoked_at = now
                /\ d.expires_at =
                      IF Decode(last'.token, blacklist_manager.jwt_config.secret_key).ok
                      THEN [iso |-> last'.token.payload.exp]
                      ELSE None
       /\ last'.op = "cleanup_expired_blacklist_tokens"
          => {d \in store : d.expires_at = None} \subseteq store'
      ]_vars

\* The active configuration has revocation enabled and a store endpoint.
ClientConfigured ==
    jwt_config # None /\ jwt_config.enable_blacklist /\ jwt_config.mongodb_api_url # None

\* The cached client is bound to the active configuration's endpoint.
ClientInstalled ==
    /\ blacklist_manager # None
    /\ blacklist_manager.mongodb_api_url = jwt_config.mongodb_api_url

\* C38: with an active configuration that has revocation enabled and a
\* store endpoint, a verify_token (of a token that decodes),
\* is_token_blacklisted or revoke_token call leaves a Revocation Client
\* bound to that endpoint in the cache, and later calls keep the cached
\* client; initialize_blacklist_system returns True and installs such a
\* client whenever the active configuration has a store endpoint, and
\* returns False otherwise.
C38_ClientSetUp ==
    /\ []((/\ last.op \in {"verify_token", "is_token_blacklisted", "revoke_token"}
            /\ ClientConfigured
            /\ StillValid(last.token))
           => ClientInstalled)
    /\ [](last.op = "initialize_blacklist_system"
           => /\ last.result <=> (jwt_config # None /\ jwt_config.mongodb_api_url # None)
              /\ last.result => ClientInstalled)
    /\ [][(/\ blacklist_manager # None
            /\ last'.op \in {"verify_token", "is_token_blacklisted", "revoke_token"})
           => blacklist_manager' = blacklist_manager]_vars

====
